---- MODULE Spec2Model ----
(***************************************************************************)
(* Verification model of the network test automation framework:           *)
(*   core/base_driver.py      retry, take_snapshot, scoped session,       *)
(*                            validate_connectivity, run_health_check,    *)
(*                            compare_snapshots                           *)
(*   drivers/*_driver.py      Juniper, Cisco and Arista drivers           *)
(*   core/snapshot_engine.py  diff                                        *)
(*                                                                         *)
(* A Python string is a string; where the code looks at its characters    *)
(* (lower(), startswith(), sorted()) Chars gives them as a sequence.       *)
(* Python's None is the value None below.  An exception is a record       *)
(* [kind, text]: kind is its class, text is what str(exc) gives.          *)
(***************************************************************************)
EXTENDS Integers, Sequences, FiniteSets, TLC

VARIABLES
    \* ---- BaseDriver core (core/base_driver.py) ----
    hostname,       \* DeviceInfo.hostname of the driver
    deviceData,     \* environment: category -> maps the device may answer with
    op,             \* the public operation in progress
    pc,             \* its position
    snapshot_id,    \* argument of take_snapshot
    func,           \* _retry: the getter being retried
    max_attempts,   \* _retry: parameter
    backoff_base,   \* _retry: parameter
    attempt,        \* _retry: loop variable
    last_exc,       \* _retry: local
    log,            \* _retry: calls of func and sleeps of this invocation, in order
    ret,            \* _retry: how it ended (return value or raised error)
    fields,         \* take_snapshot / run_health_check: getter results so far
    total_calls,    \* getter invocations of the operation in progress
    returned,       \* category -> what its getter returned when it succeeded
    outcome,        \* how the public operation ended
    session,        \* scoped session (with-block) bookkeeping
    \* ---- vendor drivers (drivers/*_driver.py) ----
    vendor,         \* which driver class the driver is
    drv,            \* its fields: _connected and the session handles
    last,           \* the last public call on it: what it did and how it ended
    \* ---- snapshot comparison (snapshot_engine.py, base_driver.py) ----
    pre,            \* the baseline snapshot
    post,           \* the snapshot compared against it
    engine_diff,    \* what SnapshotEngine.diff(pre, post) returned last
    driver_diff,    \* what BaseDriver.compare_snapshots(pre, post) returned last
    \* ---- snapshot storage (snapshot_engine.py) ----
    store,          \* the storage directory: file name -> content of the file
    captured,       \* (device, snapshot_id) -> the last snapshot capture returned for it
    writes,         \* how many times the directory has been written to
    engine_last,    \* the last call on the engine: arguments, how it ended, and
                    \* the value of writes when it ended
    writers,        \* captures whose write_text is in progress
    \* ---- StateValidator (core/validator.py) ----
    validator_data, \* the state tables handed to the validator
    validator_last, \* the last call on the validator and how it ended
    \* ---- TopologyVerifier (analysis/topology_verifier.py) ----
    topo,           \* its fields: _strict, _adjacency, _links, _devices
    topo_last,      \* the last call on the verifier and how it ended
    bfs             \* assert_fully_connected in progress: its locals

coreVars == <<hostname, deviceData, op, pc, snapshot_id, func, max_attempts,
              backoff_base, attempt, last_exc, log, ret, fields, total_calls,
              returned, outcome, session>>

vendorVars == <<vendor, drv, last>>

diffVars == <<pre, post, engine_diff, driver_diff>>

\* What the operations of the driver base class leave alone
storeVars == <<store, captured, writes, engine_last, writers>>
validatorVars == <<validator_data, validator_last>>
topologyVars == <<topo, topo_last, bfs>>
outsideCore == <<vendorVars, diffVars, storeVars, validatorVars, topologyVars>>

-----------------------------------------------------------------------------
(* Python values *)

None == [py |-> "None"]

EmptyMap == [k \in {} |-> None]

\* dict.get(key, default)
Get(d, key, default) == IF key \in DOMAIN d THEN d[key] ELSE default

\* d[key] = value on a dict
Put(d, key, value) == [k \in (DOMAIN d) \cup {key} |-> IF k = key THEN value ELSE d[k]]

\* A one-entry dict
Single(key, value) == [k \in {key} |-> value]

RECURSIVE Pow(_, _)
\* backoff_base ** attempt
Pow(b, e) == IF e = 0 THEN 1 ELSE b * Pow(b, e - 1)

\* ---- characters and strings ----
UpperChars == <<"A","B","C","D","E","F","G","H","I","J","K","L","M",
                "N","O","P","Q","R","S","T","U","V","W","X","Y","Z">>
LowerChars == <<"a","b","c","d","e","f","g","h","i","j","k","l","m",
                "n","o","p","q","r","s","t","u","v","w","x","y","z">>

\* str.lower() on one character
LowerChar(c) ==
    IF \E i \in 1..26 : UpperChars[i] = c
    THEN LowerChars[CHOOSE i \in 1..26 : UpperChars[i] = c]
    ELSE c

\* str.lower()
Lower(s) == [i \in 1..Len(s) |-> LowerChar(s[i])]

\* str.startswith(prefix)
StartsWith(s, prefix) ==
    Len(s) >= Len(prefix) /\ SubSeq(s, 1, Len(prefix)) = prefix

\* str.startswith((p1, p2, ...))
StartsWithAny(s, prefixes) == \E p \in prefixes : StartsWith(s, p)


-----------------------------------------------------------------------------
(* BaseDriver: module constants and the data of a driver *)

MAX_RETRY_ATTEMPTS == 3
RETRY_BACKOFF_BASE == 2

\* Largest max_attempts a direct caller of _retry passes
MaxAttempts == 3

\* backoff_base values a direct caller of _retry passes
BackoffBases == {RETRY_BACKOFF_BASE, RETRY_BACKOFF_BASE + 1}

\* The five data categories, in the order take_snapshot collects them
Categories == <<"bgp_neighbors", "interfaces", "routing_table",
                "lldp_neighbors", "evpn_routes">>

\* The abstract getters of BaseDriver, one per category
Getters == <<"get_bgp_neighbors", "get_interfaces", "get_routing_table",
             "get_lldp_neighbors", "get_evpn_routes">>

GetterIndex(g) == CHOOSE i \in 1..Len(Getters) : Getters[i] = g
GetterCategory(g) == Categories[GetterIndex(g)]

Hostnames == {"spine1", "leaf1"}
SnapshotIds == {"pre-change", "post-change"}

\* Strings of device tables: BGP states, interface states and names, keys
Established == "established"
Up == "up"


\* The characters of each string the code looks into
Spelling ==
    ("established" :> <<"e","s","t","a","b","l","i","s","h","e","d">>)
 @@ ("Established" :> <<"E","s","t","a","b","l","i","s","h","e","d">>)
 @@ ("active" :> <<"a","c","t","i","v","e">>)
 @@ ("up" :> <<"u","p">>)
 @@ ("UP" :> <<"U","P">>)
 @@ ("down" :> <<"d","o","w","n">>)
 @@ ("" :> <<>>)
 @@ ("10.0.0.1" :> <<"1","0",".","0",".","0",".","1">>)
 @@ ("10.0.0.2" :> <<"1","0",".","0",".","0",".","2">>)
 @@ ("et-0" :> <<"e","t","-","0">>)
 @@ ("lo0" :> <<"l","o","0">>)
 @@ ("Lo0" :> <<"L","o","0">>)
 @@ ("Loopback0" :> <<"L","o","o","p","b","a","c","k","0">>)
 @@ ("Management1" :> <<"M","a","n","a","g","e","m","e","n","t","1">>)
 @@ ("mgmt0" :> <<"m","g","m","t","0">>)
 @@ ("lo" :> <<"l","o">>)
 @@ ("Loopback" :> <<"L","o","o","p","b","a","c","k">>)
 @@ ("Management" :> <<"M","a","n","a","g","e","m","e","n","t">>)
 @@ ("mgmt" :> <<"m","g","m","t">>)
 @@ ("leaf" :> <<"l","e","a","f">>)
 @@ ("A" :> <<"A">>)
 @@ ("B" :> <<"B">>)
 @@ ("C" :> <<"C">>)
 @@ ("ESTABLISHED" :> <<"E","S","T","A","B","L","I","S","H","E","D">>)
 @@ ("Active" :> <<"A","c","t","i","v","e">>)
 @@ ("unknown" :> <<"u","n","k","n","o","w","n">>)
 @@ ("None" :> <<"N","o","n","e">>)
 @@ ("none" :> <<"n","o","n","e">>)
 @@ ("leaf_1" :> <<"l","e","a","f","_","1">>)
 @@ ("leaf/1" :> <<"l","e","a","f","/","1">>)
 @@ ("pre" :> <<"p","r","e">>)
 @@ ("1_pre" :> <<"1","_","p","r","e">>)
 @@ (".json" :> <<".","j","s","o","n">>)
 @@ ("leaf_pre.json" :> <<"l","e","a","f","_","p","r","e",".","j","s","o","n">>)
 @@ ("leaf_1_pre.json" :>
        <<"l","e","a","f","_","1","_","p","r","e",".","j","s","o","n">>)
 @@ ("leaf_1_1_pre.json" :>
        <<"l","e","a","f","_","1","_","1","_","p","r","e",".","j","s","o","n">>)

Chars(s) == Spelling[s]

\* What a device answers in the retry and snapshot runs: per category, an
\* empty table or a one-row table
SmallData ==
    [c \in {Categories[i] : i \in 1..Len(Categories)} |->
        CASE c = "bgp_neighbors" ->
                {EmptyMap, Single("10.0.0.1", [state |-> Established])}
          [] c = "interfaces" ->
                {EmptyMap, Single("et-0", [oper_status |-> Up])}
          [] c = "routing_table" ->
                {EmptyMap, Single("10.0.0.0/8", [protocol |-> "ospf"])}
          [] c = "lldp_neighbors" ->
                {EmptyMap, Single("et-0", [remote_system |-> "spine2"])}
          [] OTHER ->
                {EmptyMap, Single("10.0.0.0/8", [route_type |-> 2])}]

\* Errors an abstract getter raises (class and str())
GetterErrors ==
    { [kind |-> "CommandExecutionError", text |-> "[dev] Command execution failed"],
      [kind |-> "TimeoutError", text |-> "timed out"] }

\* What one call of a getter can do: return a table or raise
GetterOutcomes(g) ==
    { [kind |-> "return", value |-> m] : m \in deviceData[GetterCategory(g)] }
      \cup { [kind |-> "raise", value |-> e] : e \in GetterErrors }

NoOutcome == [kind |-> "none", value |-> None]

-----------------------------------------------------------------------------
(* BaseDriver._retry *)

\* A variant that sleeps after the last failed attempt too
ShouldSleep_AfterLast(att, maxatt) == att <= maxatt

\* the loop's "if attempt < max_attempts" before sleeping
ShouldSleep(att, maxatt) == att < maxatt

\* delay = backoff_base ** attempt
Delay(base, att) == Pow(base, att)

\* A variant that keeps the first exception instead of the last
CaughtExc_First(prev, exc) == IF prev = None THEN exc ELSE prev

\* "last_exc = exc" in the except clause
CaughtExc(prev, exc) == exc

\* A variant that allows one attempt more
LastAttempt_Late(att, maxatt) == att > maxatt

\* "for attempt in range(1, max_attempts + 1)": is attempt att the last one
LastAttempt(att, maxatt) == att >= maxatt

CallEvent(att, out) == [ev |-> "call", attempt |-> att, out |-> out]
SleepEvent(d) == [ev |-> "sleep", delay |-> d]

\* Entering _retry(func, max_attempts, backoff_base)
StartRetry(g, maxatt, base) ==
    /\ func' = g
    /\ max_attempts' = maxatt
    /\ backoff_base' = base
    /\ attempt' = 1
    /\ last_exc' = None
    /\ log' = <<>>
    /\ ret' = NoOutcome

\* A caller invokes _retry directly on one getter
CallRetry ==
    /\ pc = "idle"
    /\ \E g \in {Getters[i] : i \in 1..Len(Getters)}, n \in 1..MaxAttempts,
          b \in BackoffBases :
          StartRetry(g, n, b)
    /\ op' = "_retry"
    /\ pc' = "loop"
    /\ total_calls' = 0
    /\ returned' = EmptyMap
    /\ UNCHANGED <<hostname, deviceData, snapshot_id, fields, outcome, session>>
    /\ UNCHANGED outsideCore

\* One iteration of the for-loop of _retry: call func, and on an exception
\* remember it and sleep unless this was the last attempt; leaving the loop
\* without a return raises last_exc
RetryIteration ==
    /\ pc = "loop"
    /\ \E out \in GetterOutcomes(func) :
          /\ total_calls' = total_calls + 1
          /\ IF out.kind = "return"
             THEN /\ log' = Append(log, CallEvent(attempt, out))
                  /\ returned' = Put(returned, GetterCategory(func), out.value)
                  /\ ret' = out
                  /\ pc' = "ret"
                  /\ UNCHANGED <<attempt, last_exc>>
             ELSE /\ last_exc' = CaughtExc(last_exc, out.value)
                  /\ returned' = returned
                  /\ log' = IF ShouldSleep(attempt, max_attempts)
                            THEN log \o <<CallEvent(attempt, out),
                                          SleepEvent(Delay(backoff_base, attempt))>>
                            ELSE Append(log, CallEvent(attempt, out))
                  /\ IF LastAttempt(attempt, max_attempts)
                     THEN /\ ret' = [kind |-> "raise", value |-> last_exc']
                          /\ pc' = "ret"
                          /\ attempt' = attempt
                     ELSE /\ ret' = ret
                          /\ pc' = "loop"
                          /\ attempt' = attempt + 1
    /\ UNCHANGED <<hostname, deviceData, op, snapshot_id, func, max_attempts,
                   backoff_base, fields, outcome, session>>
    /\ UNCHANGED outsideCore

\* The direct caller of _retry receives what _retry returned or raised
RetryReturn ==
    /\ pc = "ret"
    /\ op = "_retry"
    /\ outcome' = ret
    /\ pc' = "done"
    /\ UNCHANGED <<hostname, deviceData, op, snapshot_id, func, max_attempts,
                   backoff_base, attempt, last_exc, log, ret, fields,
                   total_calls, returned, session>>
    /\ UNCHANGED outsideCore

-----------------------------------------------------------------------------
(* BaseDriver.take_snapshot *)

\* Snapshot(snapshot_id=..., device=self.hostname, bgp_neighbors=..., ...)
MakeSnapshot(id, host, f) ==
    [snapshot_id    |-> id,
     device         |-> host,
     bgp_neighbors  |-> f["bgp_neighbors"],
     interfaces     |-> f["interfaces"],
     routing_table  |-> f["routing_table"],
     lldp_neighbors |-> f["lldp_neighbors"],
     evpn_routes    |-> f["evpn_routes"]]

\* SnapshotError(f"Failed to capture snapshot '{id}'", device=hostname,
\*               details={"original_error": str(exc)})
MakeSnapshotError(id, host, exc) ==
    [kind    |-> "SnapshotError",
     message |-> <<"Failed to capture snapshot", id>>,
     device  |-> host,
     details |-> [original_error |-> exc.text]]

\* An except clause that returns the snapshot's identity instead of raising
SnapshotFailure_Swallow(id, host, exc) ==
    [kind |-> "return", value |-> [snapshot_id |-> id, device |-> host]]

\* What take_snapshot does with an exception of a getter: the except clause
SnapshotFailure(id, host, exc) ==
    [kind |-> "raise", value |-> MakeSnapshotError(id, host, exc)]

CallTakeSnapshot ==
    /\ pc = "idle"
    /\ \E id \in SnapshotIds : snapshot_id' = id
    /\ StartRetry(Getters[1], MAX_RETRY_ATTEMPTS, RETRY_BACKOFF_BASE)
    /\ op' = "take_snapshot"
    /\ pc' = "loop"
    /\ fields' = EmptyMap
    /\ total_calls' = 0
    /\ returned' = EmptyMap
    /\ UNCHANGED <<hostname, deviceData, outcome, session>>
    /\ UNCHANGED outsideCore

\* take_snapshot after one of its _retry calls ended: keep the table and go
\* on to the next getter, build the Snapshot after the fifth, or turn the
\* exception into a SnapshotError
SnapshotContinue ==
    /\ pc = "ret"
    /\ op = "take_snapshot"
    /\ IF ret.kind = "raise"
       THEN /\ outcome' = SnapshotFailure(snapshot_id, hostname, ret.value)
            /\ pc' = "done"
            /\ UNCHANGED <<func, max_attempts, backoff_base, attempt, last_exc,
                           log, ret, fields>>
       ELSE LET f == Put(fields, GetterCategory(func), ret.value)
                i == GetterIndex(func)
            IN  /\ fields' = f
                /\ IF i = Len(Getters)
                   THEN /\ outcome' = [kind |-> "return",
                                       value |-> MakeSnapshot(snapshot_id, hostname, f)]
                        /\ pc' = "done"
                        /\ UNCHANGED <<func, max_attempts, backoff_base, attempt,
                                       last_exc, log, ret>>
                   ELSE /\ StartRetry(Getters[i + 1], MAX_RETRY_ATTEMPTS,
                                      RETRY_BACKOFF_BASE)
                        /\ pc' = "loop"
                        /\ outcome' = outcome
    /\ UNCHANGED <<hostname, deviceData, op, snapshot_id, total_calls, returned,
                   session>>
    /\ UNCHANGED outsideCore

-----------------------------------------------------------------------------
(* BaseDriver.__enter__ / __exit__: the scoped session *)

\* Most operations a with-block performs on the driver
MaxBlockOps == 2

\* Errors connect() and disconnect() of a driver raise
ConnectErrors == { [kind |-> "ConnectionError", text |-> "[dev] Failed to connect"] }
DisconnectErrors == { [kind |-> "OSError", text |-> "socket closed"] }

\* Exceptions raised inside a with-block
BlockErrors ==
    { [kind |-> "ConfigPushError", text |-> "[dev] Config push failed"],
      [kind |-> "ValueError", text |-> "bad value"] }

NoSession == [calls |-> <<>>, pending |-> None, logged |-> None]

\* __enter__: self.connect(); return self
WithEnter ==
    /\ pc = "idle"
    /\ op' = "with"
    /\ \/ /\ pc' = "block"
          /\ outcome' = NoOutcome
       \/ /\ \E e \in ConnectErrors : outcome' = [kind |-> "raise", value |-> e]
          /\ pc' = "done"
    /\ session' = [NoSession EXCEPT !.calls = <<"connect">>]
    /\ UNCHANGED <<hostname, deviceData, snapshot_id, func, max_attempts,
                   backoff_base, attempt, last_exc, log, ret, fields,
                   total_calls, returned>>
    /\ UNCHANGED outsideCore

\* The block uses the driver: one operation that returns
BlockOp ==
    /\ pc = "block"
    /\ Len(session.calls) <= MaxBlockOps
    /\ session' = [session EXCEPT !.calls = Append(@, "operation")]
    /\ UNCHANGED <<hostname, deviceData, op, pc, snapshot_id, func, max_attempts,
                   backoff_base, attempt, last_exc, log, ret, fields,
                   total_calls, returned, outcome>>
    /\ UNCHANGED outsideCore

\* The block is left: normally, or by an exception raised in it
BlockLeave ==
    /\ pc = "block"
    /\ \E e \in BlockErrors \cup {None} : session' = [session EXCEPT !.pending = e]
    /\ pc' = "exit"
    /\ UNCHANGED <<hostname, deviceData, op, snapshot_id, func, max_attempts,
                   backoff_base, attempt, last_exc, log, ret, fields,
                   total_calls, returned, outcome>>
    /\ UNCHANGED outsideCore

\* A variant in which an error of disconnect() replaces the block's exception
ExitPropagates_Disc(pending, disc) ==
    IF disc.kind = "raise" THEN disc
    ELSE IF pending = None THEN [kind |-> "return", value |-> None]
                           ELSE [kind |-> "raise", value |-> pending]

\* What leaves the with statement after __exit__ ran: __exit__ returns None,
\* so the block's exception (if any) goes on; disc is what disconnect() did
ExitPropagates(pending, disc) ==
    IF pending = None THEN [kind |-> "return", value |-> None]
                      ELSE [kind |-> "raise", value |-> pending]

\* The disconnect() calls __exit__ makes
ExitCalls(calls) == Append(calls, "disconnect")

\* __exit__: try: self.disconnect() except Exception: log it
WithExit ==
    /\ pc = "exit"
    /\ \E disc \in {[kind |-> "return", value |-> None]}
                   \cup {[kind |-> "raise", value |-> e] : e \in DisconnectErrors} :
          /\ session' = [session EXCEPT
                           !.calls = ExitCalls(@),
                           !.logged = IF disc.kind = "raise" THEN disc.value ELSE None]
          /\ outcome' = ExitPropagates(session.pending, disc)
    /\ pc' = "done"
    /\ UNCHANGED <<hostname, deviceData, op, snapshot_id, func, max_attempts,
                   backoff_base, attempt, last_exc, log, ret, fields,
                   total_calls, returned>>
    /\ UNCHANGED outsideCore

-----------------------------------------------------------------------------
(* The BaseDriver specification: a driver whose abstract methods are the
   environment *)

\* The caller is done with the result and the driver is ready for the next call
Reset ==
    /\ pc = "done"
    /\ pc' = "idle"
    /\ op' = "idle"
    /\ snapshot_id' = None
    /\ func' = None
    /\ max_attempts' = 0
    /\ backoff_base' = 0
    /\ attempt' = 0
    /\ last_exc' = None
    /\ log' = <<>>
    /\ ret' = NoOutcome
    /\ fields' = EmptyMap
    /\ total_calls' = 0
    /\ returned' = EmptyMap
    /\ outcome' = NoOutcome
    /\ session' = NoSession
    /\ UNCHANGED <<hostname, deviceData>>
    /\ UNCHANGED outsideCore

CoreIdle ==
    /\ op = "idle"
    /\ pc = "idle"
    /\ snapshot_id = None
    /\ func = None
    /\ max_attempts = 0
    /\ backoff_base = 0
    /\ attempt = 0
    /\ last_exc = None
    /\ log = <<>>
    /\ ret = NoOutcome
    /\ fields = EmptyMap
    /\ total_calls = 0
    /\ returned = EmptyMap
    /\ outcome = NoOutcome
    /\ session = NoSession


-----------------------------------------------------------------------------
(* Claims on the BaseDriver core *)

\* The calls of func in a _retry log, in order
CallsOf(l) == SelectSeq(l, LAMBDA e : e.ev = "call")

\* The sleeps in a _retry log, in order
SleepsOf(l) == SelectSeq(l, LAMBDA e : e.ev = "sleep")

RetryEnded == pc \in {"ret", "done"} /\ ret.kind # "none"

\* C1: when _retry(func, max_attempts = N >= 1) has ended: if it raised, func
\* was called exactly N times, every call failed, and the error raised is the
\* very error of the N-th call (same class, same text, not wrapped); if it
\* returned, func was called exactly k <= N times, calls 1..k-1 failed and
\* the value returned is what call k returned.  A direct caller receives
\* exactly that.
C1_RetryExact ==
    RetryEnded =>
        LET calls == CallsOf(log)
            k == Len(calls)
        IN  /\ k >= 1
            /\ \A i \in 1..k : calls[i].attempt = i
            /\ \A i \in 1..(k - 1) : calls[i].out.kind = "raise"
            /\ ret.kind = "raise" =>
                  /\ k = max_attempts
                  /\ calls[k].out.kind = "raise"
                  /\ ret.value = calls[k].out.value
            /\ ret.kind = "return" =>
                  /\ k <= max_attempts
                  /\ calls[k].out = ret
            /\ (op = "_retry" /\ pc = "done") => outcome = ret

\* C1 witness: three attempts all failed, the first and the last with
\* different errors, and the caller has the error
C1_Witness ==
    /\ op = "_retry" /\ pc = "done"
    /\ max_attempts = 3
    /\ outcome.kind = "raise"
    /\ Len(CallsOf(log)) = 3
    /\ CallsOf(log)[1].out.value # CallsOf(log)[3].out.value

\* C2: at every moment of a _retry the log alternates call, sleep, call, ...:
\* the i-th failed attempt with i < max_attempts is followed by exactly one
\* sleep of backoff_base^i and only then by attempt i+1; nothing is slept
\* after the last failed attempt or after a successful one.
C2_Backoff ==
    (op \in {"_retry", "take_snapshot"} /\ pc \in {"loop", "ret", "done"}) =>
        /\ \A j \in 1..Len(log) :
              IF j % 2 = 1
              THEN /\ log[j].ev = "call"
                   /\ log[j].attempt = (j + 1) \div 2
              ELSE /\ log[j].ev = "sleep"
                   /\ log[j - 1].out.kind = "raise"
                   /\ log[j - 1].attempt < max_attempts
                   /\ log[j].delay = Pow(backoff_base, log[j - 1].attempt)
        /\ pc = "loop" => Len(log) = 2 * (attempt - 1)
        /\ pc \in {"ret", "done"} =>
              /\ Len(log) % 2 = 1
              /\ Len(SleepsOf(log)) = Len(CallsOf(log)) - 1

\* C2 witness: the defaults 3 and 2.0, every attempt failed: slept 2 s then 4 s
C2_Witness ==
    /\ pc = "ret"
    /\ max_attempts = MAX_RETRY_ATTEMPTS /\ backoff_base = RETRY_BACKOFF_BASE
    /\ ret.kind = "raise"
    /\ Len(SleepsOf(log)) = 2
    /\ SleepsOf(log)[1].delay = 2
    /\ SleepsOf(log)[2].delay = 4

AllCategories == {Categories[i] : i \in 1..Len(Categories)}

\* C3: take_snapshot(id) is all-or-nothing.  It raises exactly when one of its
\* _retry calls raised; what it raises is a SnapshotError whose details carry
\* the text of that error, and no Snapshot comes back.  When it returns, the
\* Snapshot has the requested id, the driver's hostname and, per category, the
\* table its getter returned on its successful attempt.
C3_SnapshotAllOrNothing ==
    (op = "take_snapshot" /\ pc = "done") =>
        /\ outcome.kind \in {"return", "raise"}
        /\ (outcome.kind = "raise") <=> (ret.kind = "raise")
        /\ outcome.kind = "raise" =>
              /\ outcome.value.kind = "SnapshotError"
              /\ outcome.value.details.original_error = ret.value.text
              /\ outcome.value.device = hostname
              /\ DOMAIN returned # AllCategories
        /\ outcome.kind = "return" =>
              /\ outcome.value.snapshot_id = snapshot_id
              /\ outcome.value.device = hostname
              /\ DOMAIN returned = AllCategories
              /\ \A c \in AllCategories : outcome.value[c] = returned[c]

\* C3 witness: two getters succeeded with non-empty tables, the third one
\* exhausted its retries, and take_snapshot raised
C3_Witness ==
    /\ op = "take_snapshot" /\ pc = "done"
    /\ func = "get_routing_table"
    /\ outcome.kind = "raise"
    /\ fields["bgp_neighbors"] # EmptyMap
    /\ fields["interfaces"] # EmptyMap

Count(seq, x) == Cardinality({i \in 1..Len(seq) : seq[i] = x})

\* C4: in a scoped session connect() is the first call and is made once,
\* before any operation of the block; while the block runs disconnect() has
\* not been called; once the with statement is left after the block was
\* entered, disconnect() has been called exactly once, as the last call, on
\* the normal and on the exceptional exit; and what leaves the statement is
\* the block's own exception unchanged (or nothing), whether or not
\* disconnect() raised.
C4_ScopedSession ==
    op = "with" =>
        LET c == session.calls IN
        /\ Len(c) >= 1 /\ c[1] = "connect"
        /\ Count(c, "connect") = 1
        /\ pc \in {"block", "exit"} => Count(c, "disconnect") = 0
        /\ pc = "done" =>
              IF Len(c) = 1
              THEN outcome.kind = "raise" /\ outcome.value \in ConnectErrors
              ELSE /\ Count(c, "disconnect") = 1
                   /\ c[Len(c)] = "disconnect"
                   /\ outcome = IF session.pending = None
                                THEN [kind |-> "return", value |-> None]
                                ELSE [kind |-> "raise", value |-> session.pending]

\* C4 witness: the block used the driver, raised, and disconnect() raised too
C4_Witness ==
    /\ op = "with" /\ pc = "done"
    /\ Count(session.calls, "operation") >= 1
    /\ session.pending # None
    /\ session.logged # None
    /\ outcome.kind = "raise"

-----------------------------------------------------------------------------
(* The vendor drivers: JuniperDriver, CiscoDriver, AristaDriver.

   A session handle (a PyEZ Device, a NAPALM driver, a Netmiko connection, a
   pyeapi node) is a number: NoHandle is Python's None, every constructed
   object gets the next number.  drv.closed lists the handles whose close()
   (Netmiko: disconnect()) was called, in call order.  What the transport
   library does in a call is an input of the operation. *)

Vendors == {"juniper", "cisco", "arista"}

\* Most session objects constructed in one run
MaxHandles == 4

NoHandle == 0

NewDriver ==
    [connected |-> FALSE, device |-> NoHandle, napalm |-> NoHandle,
     netmiko |-> NoHandle, eapi |-> NoHandle, next |-> 1, closed |-> <<>>]

ConnectionError(text) == [kind |-> "ConnectionError", text |-> text]
CommandExecutionError(text) == [kind |-> "CommandExecutionError", text |-> text]
ConfigPushError(text) == [kind |-> "ConfigPushError", text |-> text]

\* What the transport library raises when a call on the session fails
TransportError == [kind |-> "TransportError", text |-> "transport call failed"]

\* NAPALM's answer for a getter the platform lacks
NotImplementedError == [kind |-> "NotImplementedError", text |-> ""]

\* Tables a parsed reply turns into
VendorTables == {EmptyMap, Single("10.0.0.1", [state |-> Established])}

\* Command outputs: str(result)
Outputs == {"", "version 21.4"}

\* A Python str and Python's True as return values
PyStr(text) == [py |-> "str", text |-> text]
PyTrue == [py |-> "True"]

\* The result of an operation: the driver after it, the exception it raised
\* (None: it returned), its return value, and whether a transport call the
\* operation rests on failed
Result(d, raised, value, failed) ==
    [d |-> d, raised |-> raised, value |-> value, failed |-> failed]

\* ---- connect ----

\* JuniperDriver.connect.  t: what Device(...), open() and facts do
JuniperConnect(d, t) ==
    CASE t = "import_error" ->
            Result(d, ConnectionError("junos-eznc (PyEZ) is not installed"), None, TRUE)
      [] t = "ctor_error" ->
            Result(d, ConnectionError("Failed to connect"), None, TRUE)
      [] t = "open_error" ->
            Result([d EXCEPT !.device = d.next, !.next = d.next + 1],
                   ConnectionError("Failed to connect"), None, TRUE)
      [] t = "facts_error" ->
            Result([d EXCEPT !.device = d.next, !.next = d.next + 1,
                             !.connected = TRUE],
                   ConnectionError("Failed to connect"), None, TRUE)
      [] OTHER ->
            Result([d EXCEPT !.device = d.next, !.next = d.next + 1,
                             !.connected = TRUE],
                   None, None, FALSE)

\* CiscoDriver.connect.  t: what napalm, the driver class and open() do
CiscoConnect(d, t) ==
    CASE t = "import_error" ->
            Result(d, ConnectionError("napalm is not installed"), None, TRUE)
      [] t = "ctor_error" ->
            Result(d, ConnectionError("Failed to connect"), None, TRUE)
      [] t = "open_error" ->
            Result([d EXCEPT !.napalm = d.next, !.next = d.next + 1],
                   ConnectionError("Failed to connect"), None, TRUE)
      [] OTHER ->
            Result([d EXCEPT !.napalm = d.next, !.next = d.next + 1,
                             !.connected = TRUE],
                   None, None, FALSE)

\* AristaDriver._connect_napalm: every failure is logged as a warning
AristaConnectNapalm(d, t) ==
    IF t \in {"import_error", "ctor_error"}
    THEN d
    ELSE [d EXCEPT !.napalm = d.next, !.next = d.next + 1]

\* AristaDriver.connect.  t.eapi: what pyeapi.connect does; t.napalm: what
\* the secondary NAPALM session does.  The getters never use the NAPALM
\* session, so its loss is not counted as a failure of connect.
AristaConnect(d, t) ==
    IF t.eapi = "import_error"
    THEN Result(d, ConnectionError("pyeapi is not installed"), None, TRUE)
    ELSE IF t.eapi = "ctor_error"
    THEN Result(d, ConnectionError("eAPI connection failed"), None, TRUE)
    ELSE LET d1 == [d EXCEPT !.eapi = d.next, !.next = d.next + 1]
             d2 == AristaConnectNapalm(d1, t.napalm)
         IN  Result([d2 EXCEPT !.connected = TRUE], None, None, FALSE)

ConnectTransports(v) ==
    CASE v = "juniper" -> {"ok", "import_error", "ctor_error", "open_error", "facts_error"}
      [] v = "cisco" -> {"ok", "import_error", "ctor_error", "open_error"}
      [] OTHER -> [eapi : {"ok", "import_error", "ctor_error"},
                   napalm : {"ok", "import_error", "ctor_error", "open_error"}]

Connect(v, d, t) ==
    CASE v = "juniper" -> JuniperConnect(d, t)
      [] v = "cisco" -> CiscoConnect(d, t)
      [] OTHER -> AristaConnect(d, t)

\* ---- disconnect ----

\* A variant that keeps the handle after closing it
AfterClose_Keep(h) == h

\* "self._device = None" and its like, in the finally clause after close()
AfterClose(h) == NoHandle

\* try: handle.close() except Exception: log; finally: handle = None.
\* The close() call is made whether or not it raises.
CloseHandle(d, field) ==
    IF d[field] # NoHandle
    THEN [d EXCEPT ![field] = AfterClose(d[field]),
                   !.closed = Append(d.closed, d[field])]
    ELSE d

\* JuniperDriver.disconnect: everything sits under "if self._device is not None"
JuniperDisconnect(d) ==
    IF d.device # NoHandle
    THEN [CloseHandle(d, "device") EXCEPT !.connected = FALSE]
    ELSE d

\* CiscoDriver.disconnect
CiscoDisconnect(d) ==
    [CloseHandle(CloseHandle(d, "napalm"), "netmiko") EXCEPT !.connected = FALSE]

\* AristaDriver.disconnect: the eAPI node is dropped without a close call
AristaDisconnect(d) ==
    [CloseHandle(d, "napalm") EXCEPT !.eapi = NoHandle, !.connected = FALSE]

\* disconnect() of the three drivers: no path raises, whatever close() does
Disconnect(v, d) ==
    Result(CASE v = "juniper" -> JuniperDisconnect(d)
             [] v = "cisco" -> CiscoDisconnect(d)
             [] OTHER -> AristaDisconnect(d),
           None, None, FALSE)

\* ---- _ensure_connected ----
EnsureConnected(v, d) ==
    CASE v = "juniper" -> d.connected /\ d.device # NoHandle
      [] v = "cisco" -> d.connected /\ d.napalm # NoHandle
      [] OTHER -> d.connected /\ d.eapi # NoHandle

NotConnected == ConnectionError("Not connected - call connect() first")

\* ---- getters, push_config, execute_command ----

\* What the transport does in one call of an operation.  rpc: the primary
\* call ("unsupported": NAPALM raises NotImplementedError); nm_conn, nm_cmd:
\* Netmiko's ConnectHandler and send_command; value: the parsed reply;
\* output: the text of a command
Transports ==
    [rpc : {"ok", "fail", "unsupported"}, nm_conn : {"ok", "fail"},
     nm_cmd : {"ok", "fail"}, value : VendorTables, output : Outputs \cup {"[]"}]

\* The inputs that differ for an operation of a vendor: the parts a vendor's
\* code never consults are held at one value
OpTransports(v, m) ==
    {t \in Transports :
        /\ (t.rpc = "unsupported") => (v = "cisco" /\ m = "get_routing_table")
        /\ (t.output = "[]") => (v = "arista" /\ m = "execute_command")
        /\ (t.output # "version 21.4") => (m = "execute_command")
        /\ (t.value # EmptyMap) => (m \notin {"execute_command", "push_config"})
        /\ (t.nm_conn = "fail" \/ t.nm_cmd = "fail") =>
              /\ v = "cisco"
              /\ m \in {"execute_command", "get_routing_table", "get_evpn_routes"}}

\* CiscoDriver._netmiko_command with _get_netmiko_connection: the session is
\* opened on first use, and every failure leaves as CommandExecutionError
NetmikoCommand(d, t) ==
    IF d.netmiko = NoHandle /\ t.nm_conn = "fail"
    THEN Result(d, CommandExecutionError("Command execution failed"), None, TRUE)
    ELSE LET d1 == IF d.netmiko = NoHandle
                   THEN [d EXCEPT !.netmiko = d.next, !.next = d.next + 1]
                   ELSE d
         IN  IF t.nm_cmd = "fail"
             THEN Result(d1, CommandExecutionError("Command execution failed"), None, TRUE)
             ELSE Result(d1, None, PyStr(t.output), FALSE)

\* The four JuniperDriver getters that call self._device.rpc outside any try
JuniperGetter(d, t) ==
    IF ~EnsureConnected("juniper", d) THEN Result(d, NotConnected, None, FALSE)
    ELSE IF t.rpc = "fail" THEN Result(d, TransportError, None, TRUE)
    ELSE Result(d, None, t.value, FALSE)

\* JuniperDriver.get_evpn_routes: "except Exception: return {}"
JuniperGetEvpnRoutes(d, t) ==
    IF ~EnsureConnected("juniper", d) THEN Result(d, NotConnected, None, FALSE)
    ELSE IF t.rpc = "fail" THEN Result(d, None, EmptyMap, TRUE)
    ELSE Result(d, None, t.value, FALSE)

\* CiscoDriver.get_bgp_neighbors, get_interfaces, get_lldp_neighbors: the
\* NAPALM getter is called outside any try
CiscoGetter(d, t) ==
    IF ~EnsureConnected("cisco", d) THEN Result(d, NotConnected, None, FALSE)
    ELSE IF t.rpc = "fail" THEN Result(d, TransportError, None, TRUE)
    ELSE Result(d, None, t.value, FALSE)

\* CiscoDriver.get_routing_table: only NotImplementedError and AttributeError
\* lead to the CLI fallback
CiscoGetRoutingTable(d, t) ==
    IF ~EnsureConnected("cisco", d) THEN Result(d, NotConnected, None, FALSE)
    ELSE IF t.rpc = "fail" THEN Result(d, TransportError, None, TRUE)
    ELSE IF t.rpc = "unsupported"
    THEN LET r == NetmikoCommand(d, t)
         IN  IF r.raised # None THEN r
             ELSE Result(r.d, None, t.value, FALSE)
    ELSE Result(d, None, t.value, FALSE)

\* CiscoDriver.get_evpn_routes: "except Exception" around the CLI command
CiscoGetEvpnRoutes(d, t) ==
    IF ~EnsureConnected("cisco", d) THEN Result(d, NotConnected, None, FALSE)
    ELSE LET r == NetmikoCommand(d, t)
         IN  IF r.raised # None THEN Result(r.d, None, EmptyMap, TRUE)
             ELSE Result(r.d, None, t.value, FALSE)

\* The four AristaDriver getters built on _eapi_command
AristaGetter(d, t) ==
    IF ~EnsureConnected("arista", d) THEN Result(d, NotConnected, None, FALSE)
    ELSE IF t.rpc = "fail"
    THEN Result(d, CommandExecutionError("eAPI command failed"), None, TRUE)
    ELSE Result(d, None, t.value, FALSE)

\* AristaDriver.get_evpn_routes: "except Exception: return {}"
AristaGetEvpnRoutes(d, t) ==
    IF ~EnsureConnected("arista", d) THEN Result(d, NotConnected, None, FALSE)
    ELSE IF t.rpc = "fail" THEN Result(d, None, EmptyMap, TRUE)
    ELSE Result(d, None, t.value, FALSE)

GetterMethods ==
    {"get_bgp_neighbors", "get_interfaces", "get_routing_table",
     "get_lldp_neighbors", "get_evpn_routes"}

Getter(v, m, d, t) ==
    CASE v = "juniper" /\ m = "get_evpn_routes" -> JuniperGetEvpnRoutes(d, t)
      [] v = "juniper" /\ m # "get_evpn_routes" -> JuniperGetter(d, t)
      [] v = "cisco" /\ m = "get_evpn_routes" -> CiscoGetEvpnRoutes(d, t)
      [] v = "cisco" /\ m = "get_routing_table" -> CiscoGetRoutingTable(d, t)
      [] v = "cisco" /\ m \notin {"get_evpn_routes", "get_routing_table"} -> CiscoGetter(d, t)
      [] v = "arista" /\ m = "get_evpn_routes" -> AristaGetEvpnRoutes(d, t)
      [] OTHER -> AristaGetter(d, t)

\* push_config of the three drivers: _ensure_connected stands before the
\* try, everything inside it leaves as ConfigPushError
PushConfig(v, d, t) ==
    IF ~EnsureConnected(v, d) THEN Result(d, NotConnected, None, FALSE)
    ELSE IF t.rpc = "fail"
    THEN Result(d, ConfigPushError("Config push failed"), None, TRUE)
    ELSE Result(d, None, PyTrue, FALSE)

\* execute_command of the three drivers
ExecuteCommand(v, d, t) ==
    IF ~EnsureConnected(v, d) THEN Result(d, NotConnected, None, FALSE)
    ELSE IF v = "cisco" THEN NetmikoCommand(d, t)
    ELSE IF t.rpc = "fail"
    THEN Result(d, CommandExecutionError("Command execution failed"), None, TRUE)
    ELSE Result(d, None, PyStr(t.output), FALSE)

\* ---- BaseDriver.validate_connectivity on a vendor driver ----

\* A variant that disconnects whoever opened the session
ShouldDisconnect_Always(was_connected, connected) == connected

\* The finally clause: "if not was_connected and self._connected"
ShouldDisconnect(was_connected, connected) == ~was_connected /\ connected

\* The try body: connect if needed, run the command, refuse empty output.
\* calls lists the driver operations called, in order.
ValidateBody(v, d, tc, te) ==
    LET c == IF ~d.connected THEN Connect(v, d, tc) ELSE Result(d, None, None, FALSE)
        calls0 == IF ~d.connected THEN <<"connect">> ELSE <<>>
    IN  IF c.raised # None
        THEN [r |-> c, calls |-> calls0]
        ELSE LET e == ExecuteCommand(v, c.d, te)
                 calls1 == Append(calls0, "execute_command")
             IN  IF e.raised # None THEN [r |-> e, calls |-> calls1]
                 ELSE IF e.value.text = ""
                 THEN [r |-> Result(e.d, ConnectionError("Empty response from device"),
                                    None, FALSE),
                       calls |-> calls1]
                 ELSE [r |-> Result(e.d, None, PyTrue, FALSE), calls |-> calls1]

\* The whole method: the body, "except Exception: log; raise", the finally
ValidateConnectivity(v, d, tc, te) ==
    LET was_connected == d.connected
        b == ValidateBody(v, d, tc, te)
    IN  IF ShouldDisconnect(was_connected, b.r.d.connected)
        THEN [r |-> [b.r EXCEPT !.d = Disconnect(v, b.r.d).d],
              calls |-> Append(b.calls, "disconnect")]
        ELSE b

\* ---- one public call on the driver ----

NoCall ==
    [method |-> "none", raised |-> None, value |-> None, failed |-> FALSE,
     pre |-> NewDriver, calls |-> <<>>]

\* What a call leaves in last: the method, how it ended, the driver it was
\* called on and the driver operations it called
Called(m, d, r, calls) ==
    [method |-> m, raised |-> r.raised, value |-> r.value, failed |-> r.failed,
     pre |-> d, calls |-> calls]

Room(n) == (drv.next - 1) + n <= MaxHandles

VConnect ==
    /\ Room(2)
    /\ \E t \in ConnectTransports(vendor) :
          LET r == Connect(vendor, drv, t)
          IN  /\ drv' = r.d
              /\ last' = Called("connect", drv, r, <<>>)
    /\ UNCHANGED <<vendor, coreVars, diffVars, storeVars, validatorVars, topologyVars>>

VDisconnect ==
    /\ LET r == Disconnect(vendor, drv)
       IN  /\ drv' = r.d
           /\ last' = Called("disconnect", drv, r, <<>>)
    /\ UNCHANGED <<vendor, coreVars, diffVars, storeVars, validatorVars, topologyVars>>

VGetter ==
    /\ Room(1)
    /\ \E m \in GetterMethods : \E t \in OpTransports(vendor, m) :
          LET r == Getter(vendor, m, drv, t)
          IN  /\ drv' = r.d
              /\ last' = Called(m, drv, r, <<>>)
    /\ UNCHANGED <<vendor, coreVars, diffVars, storeVars, validatorVars, topologyVars>>

VPushConfig ==
    /\ \E t \in OpTransports(vendor, "push_config") :
          LET r == PushConfig(vendor, drv, t)
          IN  /\ drv' = r.d
              /\ last' = Called("push_config", drv, r, <<>>)
    /\ UNCHANGED <<vendor, coreVars, diffVars, storeVars, validatorVars, topologyVars>>

VExecuteCommand ==
    /\ Room(1)
    /\ \E t \in OpTransports(vendor, "execute_command") :
          LET r == ExecuteCommand(vendor, drv, t)
          IN  /\ drv' = r.d
              /\ last' = Called("execute_command", drv, r, <<>>)
    /\ UNCHANGED <<vendor, coreVars, diffVars, storeVars, validatorVars, topologyVars>>

VValidateConnectivity ==
    /\ Room(2)
    /\ \E tc \in ConnectTransports(vendor) :
       \E te \in OpTransports(vendor, "execute_command") :
          LET b == ValidateConnectivity(vendor, drv, tc, te)
          IN  /\ drv' = b.r.d
              /\ last' = Called("validate_connectivity", drv, b.r, b.calls)
    /\ UNCHANGED <<vendor, coreVars, diffVars, storeVars, validatorVars, topologyVars>>

-----------------------------------------------------------------------------
(* BaseDriver.run_health_check *)

\* Rows of the BGP table: a state in several spellings, or no state field
BgpRows ==
    {[state |-> Established], [state |-> "Established"], [state |-> "active"],
     EmptyMap}

\* BGP tables: none, one or two peers
BgpTables ==
    {EmptyMap}
      \cup {Single("10.0.0.1", r) : r \in BgpRows}
      \cup {Put(Single("10.0.0.1", r), "10.0.0.2", q) :
               r \in BgpRows, q \in {[state |-> Established], [state |-> "active"]}}

\* Rows of the interface table
IfaceRows ==
    {[oper_status |-> Up], [oper_status |-> "UP"], [oper_status |-> "down"],
     EmptyMap}

\* Interface names that start with one of the four prefixes, and names that
\* do not ("Lo0" differs from "lo" in case)
LoopbackMgmtNames == {"lo0", "Loopback0", "Management1", "mgmt0"}
DataNames == {"et-0", "Lo0"}

\* Interface tables: at most one data interface and one loopback/management
\* interface
IfaceTables ==
    LET data == {EmptyMap} \cup {Single(n, r) : n \in DataNames, r \in IfaceRows}
    IN  data \cup {Put(t, n, [oper_status |-> "down"]) :
                      t \in data, n \in LoopbackMgmtNames}

LldpTables == {EmptyMap, Single("et-0", [remote_system |-> "spine2"])}

\* What the getters of the checked device can return
HealthData ==
    [c \in {Categories[i] : i \in 1..Len(Categories)} |->
        CASE c = "bgp_neighbors" -> BgpTables
          [] c = "interfaces" -> IfaceTables
          [] c = "lldp_neighbors" -> LldpTables
          [] OTHER -> {EmptyMap}]

\* all(neighbor.get("state", "").lower() == "established" for ... in bgp.values())
BgpHealthy(bgp) ==
    \A peer \in DOMAIN bgp :
        Lower(Chars(Get(bgp[peer], "state", ""))) = Chars(Established)

\* The prefixes of interface names the health check leaves out
SkippedPrefixes == {Chars("lo"), Chars("Loopback"), Chars("Management"), Chars("mgmt")}

\* A variant that compares the status as it is spelled
IfaceUp_Exact(iface) == Get(iface, "oper_status", "") = Up

\* iface.get("oper_status", "").lower() == "up"
IfaceUp(iface) == Lower(Chars(Get(iface, "oper_status", ""))) = Chars(Up)

\* all(... for name, iface in interfaces.items() if not name.startswith(...))
IfaceHealthy(interfaces) ==
    \A name \in DOMAIN interfaces :
        ~StartsWithAny(Chars(name), SkippedPrefixes) => IfaceUp(interfaces[name])

\* len(lldp) > 0
LldpHealthy(lldp) == DOMAIN lldp # {}

\* {"healthy": ..., "details": ...}
SubReport(healthy, details) == [healthy |-> healthy, details |-> details]

\* run_health_check is called: the first _retry starts
CallHealthCheck ==
    /\ pc = "idle"
    /\ StartRetry("get_bgp_neighbors", MAX_RETRY_ATTEMPTS, RETRY_BACKOFF_BASE)
    /\ op' = "run_health_check"
    /\ pc' = "loop"
    /\ fields' = EmptyMap
    /\ total_calls' = 0
    /\ returned' = EmptyMap
    /\ UNCHANGED <<hostname, deviceData, snapshot_id, outcome, session>>
    /\ UNCHANGED outsideCore

\* run_health_check after one of its _retry calls ended.  An exception
\* leaves the method as it is.  Otherwise the judgment goes into the report
\* (kept in fields) and the next getter is fetched; after the LLDP table the
\* overall flag is the AND of the three judgments and the report is returned.
HealthContinue ==
    /\ pc = "ret"
    /\ op = "run_health_check"
    /\ IF ret.kind = "raise"
       THEN /\ outcome' = ret
            /\ pc' = "done"
            /\ UNCHANGED <<func, max_attempts, backoff_base, attempt, last_exc,
                           log, ret, fields>>
       ELSE IF func = "get_bgp_neighbors"
       THEN /\ fields' = Put(fields, "bgp",
                             SubReport(BgpHealthy(ret.value), ret.value))
            /\ StartRetry("get_interfaces", MAX_RETRY_ATTEMPTS, RETRY_BACKOFF_BASE)
            /\ pc' = "loop"
            /\ outcome' = outcome
       ELSE IF func = "get_interfaces"
       THEN /\ fields' = Put(fields, "interfaces",
                             SubReport(IfaceHealthy(ret.value), ret.value))
            /\ StartRetry("get_lldp_neighbors", MAX_RETRY_ATTEMPTS,
                          RETRY_BACKOFF_BASE)
            /\ pc' = "loop"
            /\ outcome' = outcome
       ELSE LET lldp == ret.value
                overall == /\ fields["bgp"].healthy
                           /\ fields["interfaces"].healthy
                           /\ LldpHealthy(lldp)
                report == Put(Put(fields, "lldp",
                                  SubReport(LldpHealthy(lldp), lldp)),
                              "overall_healthy", overall)
            IN  /\ fields' = report
                /\ outcome' = [kind |-> "return", value |-> report]
                /\ pc' = "done"
                /\ UNCHANGED <<func, max_attempts, backoff_base, attempt,
                               last_exc, log, ret>>
    /\ UNCHANGED <<hostname, deviceData, op, snapshot_id, total_calls, returned,
                   session>>
    /\ UNCHANGED outsideCore

-----------------------------------------------------------------------------
(* Snapshot comparison: SnapshotEngine.diff with _diff_category, and
   BaseDriver.compare_snapshots with _diff_dicts *)

\* The characters of the keys in code point order
CodeOrder ==
    <<"-", ".", "/", "0", "1", "2", "3", "4", "5", "6", "7", "8", "9">>
      \o UpperChars \o <<"\\", "_">> \o LowerChars

Code(c) == CHOOSE i \in 1..Len(CodeOrder) : CodeOrder[i] = c

\* a < b on Python strings: at the first position where they differ a has
\* the smaller code point, or a is a proper prefix of b
StrLess(a, b) ==
    LET x == Chars(a)
        y == Chars(b)
    IN  \E i \in 1..Len(y) :
           /\ \A j \in 1..(i - 1) : j <= Len(x) /\ x[j] = y[j]
           /\ \/ i > Len(x)
              \/ i <= Len(x) /\ Code(x[i]) < Code(y[i])

\* Hash seeds of the interpreter: the order in which a set yields its
\* elements depends on it (and on the insertion order of the dicts the set
\* was built from)
HashSeeds == {"seed-a", "seed-b"}

RECURSIVE SetOrder(_, _)
\* list(set(pre_data.keys()) | set(post_data.keys())): the elements in the
\* order the set yields them under a seed
SetOrder(keys, seed) ==
    IF keys = {} THEN <<>>
    ELSE LET first == CHOOSE k \in keys : \A o \in keys \ {k} :
                         IF seed = "seed-a" THEN StrLess(k, o) ELSE StrLess(o, k)
         IN  <<first>> \o SetOrder(keys \ {first}, seed)

\* A variant that leaves the keys in the order they arrive in
Sorted_AsGiven(list) == list

RECURSIVE Sorted(_)
\* sorted(iterable): each element is put behind the smaller ones
Sorted(list) ==
    IF list = <<>> THEN <<>>
    ELSE LET rest == Sorted(Tail(list))
             n == Cardinality({i \in 1..Len(rest) : StrLess(rest[i], Head(list))})
         IN  SubSeq(rest, 1, n) \o <<Head(list)>> \o SubSeq(rest, n + 1, Len(rest))

\* DiffEntry(category=..., key=..., action=..., before=None, after=None)
DiffEntry(category, key, action, before, after) ==
    [category |-> category, key |-> key, action |-> action,
     before |-> before, after |-> after]

\* The body of the loop of SnapshotEngine._diff_category for one key: the
\* entries it appends
EngineEntries(category, key, pre_data, post_data) ==
    LET pre_val == Get(pre_data, key, None)
        post_val == Get(post_data, key, None)
    IN  IF pre_val = None /\ post_val # None
        THEN <<DiffEntry(category, key, "added", None, post_val)>>
        ELSE IF pre_val # None /\ post_val = None
        THEN <<DiffEntry(category, key, "removed", pre_val, None)>>
        ELSE IF pre_val # post_val
        THEN <<DiffEntry(category, key, "changed", pre_val, post_val)>>
        ELSE <<>>

\* The body of the loop of BaseDriver._diff_dicts for one key
DriverEntries(category, key, pre_data, post_data) ==
    IF key \notin DOMAIN pre_data
    THEN <<DiffEntry(category, key, "added", None, post_data[key])>>
    ELSE IF key \notin DOMAIN post_data
    THEN <<DiffEntry(category, key, "removed", pre_data[key], None)>>
    ELSE IF pre_data[key] # post_data[key]
    THEN <<DiffEntry(category, key, "changed", pre_data[key], post_data[key])>>
    ELSE <<>>

RECURSIVE DiffCategoryKeys(_, _, _, _)
\* SnapshotEngine._diff_category: for key in all_keys
DiffCategoryKeys(category, keys, pre_data, post_data) ==
    IF keys = <<>> THEN <<>>
    ELSE EngineEntries(category, Head(keys), pre_data, post_data)
           \o DiffCategoryKeys(category, Tail(keys), pre_data, post_data)

\* SnapshotEngine._diff_category
DiffCategory(category, pre_data, post_data, seed) ==
    DiffCategoryKeys(category,
                     Sorted(SetOrder(DOMAIN pre_data \cup DOMAIN post_data, seed)),
                     pre_data, post_data)

RECURSIVE DiffDictsKeys(_, _, _, _)
\* BaseDriver._diff_dicts: for key in sorted(all_keys)
DiffDictsKeys(category, keys, pre_data, post_data) ==
    IF keys = <<>> THEN <<>>
    ELSE DriverEntries(category, Head(keys), pre_data, post_data)
           \o DiffDictsKeys(category, Tail(keys), pre_data, post_data)

\* BaseDriver._diff_dicts
DiffDicts(category, pre_data, post_data, seed) ==
    DiffDictsKeys(category,
                  Sorted(SetOrder(DOMAIN pre_data \cup DOMAIN post_data, seed)),
                  pre_data, post_data)

\* SnapshotDiff(pre_id=..., post_id=..., device=pre.device) with its diffs;
\* timestamp is the clock at construction
SnapshotDiff(a, b, now, diffs) ==
    [pre_id |-> a.snapshot_id, post_id |-> b.snapshot_id, device |-> a.device,
     timestamp |-> now, diffs |-> diffs]

RECURSIVE DiffFrom(_, _, _, _)
\* SnapshotEngine.diff: for category, pre_data, post_data in categories, the
\* five categories in the order of the list, from the i-th on
DiffFrom(i, a, b, seed) ==
    IF i > Len(Categories) THEN <<>>
    ELSE DiffCategory(Categories[i], a[Categories[i]], b[Categories[i]], seed)
           \o DiffFrom(i + 1, a, b, seed)

\* SnapshotEngine.diff
Diff(a, b, now, seed) == SnapshotDiff(a, b, now, DiffFrom(1, a, b, seed))

RECURSIVE CompareFrom(_, _, _, _)
\* BaseDriver.compare_snapshots: the same loop over the same list
CompareFrom(i, a, b, seed) ==
    IF i > Len(Categories) THEN <<>>
    ELSE DiffDicts(Categories[i], a[Categories[i]], b[Categories[i]], seed)
           \o CompareFrom(i + 1, a, b, seed)

\* BaseDriver.compare_snapshots
CompareSnapshots(a, b, now, seed) ==
    SnapshotDiff(a, b, now, CompareFrom(1, a, b, seed))

\* Clock readings
Timestamps == {"2024-01-01T00:00:00+00:00", "2024-01-01T00:00:01+00:00"}

\* Values of a category map: Any, None included
PeerValues == {None, [state |-> Established], [state |-> "active"]}

\* BGP maps: the first peer absent or with any value, the second absent or
\* established
PeerMaps ==
    LET first == {EmptyMap} \cup {Single("10.0.0.1", v) : v \in PeerValues}
    IN  first \cup {Put(m, "10.0.0.2", [state |-> Established]) : m \in first}

\* Interface maps: every choice among two names whose order under sorted()
\* is "Lo0" < "et-0", upper case first
PortMaps ==
    {[n \in ns |-> [oper_status |-> Up]] : ns \in SUBSET {"Lo0", "et-0"}}

RouteMaps == {EmptyMap, Single("10.0.0.0/8", [route_type |-> 2])}

\* Snapshot(snapshot_id=id, device=host, bgp_neighbors=..., ...)
Snapshots(id, hosts, routes) ==
    {MakeSnapshot(id, h, [c \in {Categories[i] : i \in 1..Len(Categories)} |->
                             CASE c = "bgp_neighbors" -> bgp
                               [] c = "interfaces" -> ifs
                               [] c = "evpn_routes" -> evpn
                               [] OTHER -> EmptyMap]) :
        h \in hosts, bgp \in PeerMaps, ifs \in PortMaps, evpn \in routes}

\* engine.diff(pre, post)
EngineDiff ==
    /\ \E now \in Timestamps, seed \in HashSeeds :
          engine_diff' = Diff(pre, post, now, seed)
    /\ UNCHANGED <<pre, post, driver_diff, coreVars, vendorVars, storeVars,
                   validatorVars, topologyVars>>

\* driver.compare_snapshots(pre, post)
DriverCompare ==
    /\ \E now \in Timestamps, seed \in HashSeeds :
          driver_diff' = CompareSnapshots(pre, post, now, seed)
    /\ UNCHANGED <<pre, post, engine_diff, coreVars, vendorVars, storeVars,
                   validatorVars, topologyVars>>

-----------------------------------------------------------------------------
(* SnapshotEngine: capture, load, list_snapshots over the storage directory,
   and Snapshot.to_json / from_json.

   A value inside a category map is a dict (a record without a py field) or
   a tagged Python value [py |-> "str" | "int" | "list" | "tuple" | "None"].
   A JSON value is tagged [json |-> "object" | "array" | "string" | "number" |
   "null"].  The text of a file is held in two parts, head and tail, as a
   long text reaches the file in more than one piece: the text of a JSON
   document j is [head |-> j, tail |-> j], where head stands for the part of
   the text up to the timestamp and tail for the rest. *)

\* The string with the given characters
Str(chars) == CHOOSE text \in DOMAIN Spelling : Spelling[text] = chars

\* str.replace(old, new) for one-character old and new
Replace(chars, old, new) ==
    [i \in 1..Len(chars) |-> IF chars[i] = old THEN new ELSE chars[i]]

\* SnapshotEngine._snapshot_path: the file name under the storage directory
SnapshotPath(device, id) ==
    LET safe_device == Replace(Replace(Chars(device), "/", "_"), "\\", "_")
        safe_id == Replace(Replace(Chars(id), "/", "_"), "\\", "_")
    IN  Str(safe_device \o <<"_">> \o safe_id \o Chars(".json"))

RECURSIVE Encode(_)
\* json.dumps(value, default=str), as the JSON value the text denotes: a
\* tuple is written as an array like a list, and an object json has no
\* encoding for is written as the string str() gives
Encode(v) ==
    IF "py" \notin DOMAIN v
    THEN [json |-> "object", members |-> [k \in DOMAIN v |-> Encode(v[k])]]
    ELSE CASE v.py = "None" -> [json |-> "null"]
           [] v.py \in {"str", "object"} -> [json |-> "string", text |-> v.text]
           [] v.py = "int" -> [json |-> "number", n |-> v.n]
           [] OTHER -> [json |-> "array",
                        items |-> [i \in 1..Len(v.items) |-> Encode(v.items[i])]]

RECURSIVE Decode(_)
\* json.loads(text): an array always becomes a list
Decode(j) ==
    CASE j.json = "object" -> [k \in DOMAIN j.members |-> Decode(j.members[k])]
      [] j.json = "null" -> None
      [] j.json = "string" -> PyStr(j.text)
      [] j.json = "number" -> [py |-> "int", n |-> j.n]
      [] OTHER -> [py |-> "list",
                   items |-> [i \in 1..Len(j.items) |-> Decode(j.items[i])]]

\* The fields of the Snapshot dataclass: two strings without default, then
\* timestamp and the maps
SnapshotFields ==
    {"snapshot_id", "device", "timestamp", "raw_data"}
      \cup {Categories[i] : i \in 1..Len(Categories)}

\* A variant of to_json that leaves the timestamp out of the document
ToJson_NoTimestamp(snap) ==
    LET doc == [json |-> "object",
                members |-> [f \in SnapshotFields \ {"timestamp"} |->
                    IF f \in {"snapshot_id", "device"}
                    THEN [json |-> "string", text |-> snap[f]]
                    ELSE Encode(snap[f])]]
    IN  [head |-> doc, tail |-> doc]

\* Snapshot.to_json: json.dumps(asdict(self), ...) as the text of a file
ToJson(snap) ==
    LET doc == [json |-> "object",
                members |-> [f \in SnapshotFields |->
                    IF f \in {"snapshot_id", "device", "timestamp"}
                    THEN [json |-> "string", text |-> snap[f]]
                    ELSE Encode(snap[f])]]
    IN  [head |-> doc, tail |-> doc]

\* The members of a snapshot document that lie in the head of its text
HeadFields == {"snapshot_id", "device", "timestamp"}

\* The text a file holds, read as a whole.  Parts of two documents of the
\* same layout read as one document with the members of both; a part that
\* is missing leaves text that is not JSON.
Document(text) ==
    IF text.head = text.tail THEN text.head
    ELSE IF /\ "json" \in DOMAIN text.head /\ text.head.json = "object"
            /\ "json" \in DOMAIN text.tail /\ text.tail.json = "object"
    THEN [json |-> "object",
          members |-> [f \in (DOMAIN text.head.members \cap HeadFields)
                              \cup (DOMAIN text.tail.members \ HeadFields) |->
                          IF f \in HeadFields THEN text.head.members[f]
                          ELSE text.tail.members[f]]]
    ELSE [raw |-> "not json"]

\* Snapshot.from_json: cls(**json.loads(data)).  now is the clock, used when
\* the payload has no timestamp.
FromJson(text, now) ==
    IF "json" \notin DOMAIN Document(text)
    THEN [kind |-> "raise", value |-> [kind |-> "JSONDecodeError", text |-> "Expecting value"]]
    ELSE IF Document(text).json # "object"
    THEN [kind |-> "raise",
          value |-> [kind |-> "TypeError", text |-> "argument after ** must be a mapping"]]
    ELSE LET members == Document(text).members
         IN  IF ~(DOMAIN members \subseteq SnapshotFields)
             THEN [kind |-> "raise",
                   value |-> [kind |-> "TypeError", text |-> "unexpected keyword argument"]]
             ELSE IF ~({"snapshot_id", "device"} \subseteq DOMAIN members)
             THEN [kind |-> "raise",
                   value |-> [kind |-> "TypeError", text |-> "missing required argument"]]
             ELSE [kind |-> "return",
                   value |-> [f \in SnapshotFields |->
                       IF f \notin DOMAIN members
                       THEN (IF f = "timestamp" THEN now ELSE EmptyMap)
                       ELSE IF members[f].json = "string" THEN members[f].text
                       ELSE Decode(members[f])]]

\* Hostnames and labels the engine is called with
Devices == {"leaf", "leaf_1"}
Ids == {"pre", "1_pre"}

\* The file names the engine can form from them
Paths == {SnapshotPath(d, i) : d \in Devices, i \in Ids}

\* How many times the storage directory is written to in one behaviour
MaxWrites == 2

\* A file that does not exist, and the store before anything is persisted
Absent == [file |-> "absent"]
EmptyStore == [p \in Paths |-> Absent]

\* A file whose bytes are not valid UTF-8
InvalidBytes == [bytes |-> "not utf-8"]

\* A file holding the whole of one text
Text(doc) == [head |-> doc, tail |-> doc]

\* A BGP table of JSON types only: dict, list, str, int, None
JsonRows ==
    Single("10.0.0.1",
           [state       |-> PyStr("established"),
            prefixes    |-> [py |-> "int", n |-> 12],
            description |-> None,
            families    |-> [py |-> "list", items |-> <<PyStr("inet"), PyStr("evpn")>>]])

\* The same table as a parser may build it: an address object and a tuple
ObjectRows ==
    Single("10.0.0.1",
           [state       |-> PyStr("established"),
            prefixes    |-> [py |-> "int", n |-> 12],
            description |-> [py |-> "object", text |-> "10.0.0.1"],
            families    |-> [py |-> "tuple", items |-> <<PyStr("inet"), PyStr("evpn")>>]])

\* The Snapshot dataclass instance take_snapshot builds
NewSnapshot(id, host, timestamp, rows) ==
    LET base == MakeSnapshot(id, host,
                    [c \in {Categories[i] : i \in 1..Len(Categories)} |->
                        IF c = "bgp_neighbors" THEN rows ELSE EmptyMap])
    IN  [f \in SnapshotFields |->
            CASE f = "timestamp" -> timestamp
              [] f = "raw_data" -> EmptyMap
              [] OTHER -> base[f]]

\* How driver.take_snapshot(snapshot_id) may end
TakeOutcomes(id, host) ==
    {[kind |-> "return", value |-> NewSnapshot(id, host, t, rows)] :
        t \in Timestamps, rows \in {JsonRows, ObjectRows}}
      \cup {[kind |-> "raise",
             value |-> MakeSnapshotError(id, host,
                          [kind |-> "ConnectionError", text |-> "timed out"])]}

\* A variant of capture's handler that lets the exception through as it is
CaptureFailure_Reraise(host, id, exc) == exc

\* capture's except Exception clause: what it raises for exc
CaptureFailure(host, id, exc) ==
    [kind    |-> "SnapshotError",
     message |-> <<"Snapshot capture failed for", id>>,
     device  |-> host,
     details |-> [error |-> exc.text]]

\* SnapshotEngine.capture: the result and the storage directory afterwards.
\* disk says whether path.write_text succeeds or raises OSError on open.
Capture(files, host, id, taken, disk) ==
    IF taken.kind = "raise"
    THEN [kind |-> "raise", value |-> taken.value, files |-> files]
    ELSE IF disk = "OSError"
    THEN [kind |-> "raise",
          value |-> CaptureFailure(host, id,
                        [kind |-> "OSError", text |-> "Permission denied"]),
          files |-> files]
    ELSE LET snapshot == taken.value
             path == SnapshotPath(snapshot.device, snapshot.snapshot_id)
         IN  [kind |-> "return", value |-> snapshot,
              files |-> [files EXCEPT ![path] = ToJson(snapshot)]]

\* The exceptions load catches around Snapshot.from_json(path.read_text())
LoadCatches == {"JSONDecodeError", "TypeError", "KeyError"}

\* SnapshotEngine.load
Load(files, device, id, now) ==
    LET path == SnapshotPath(device, id)
        content == files[path]
    IN  IF content = Absent
        THEN [kind |-> "raise",
              value |-> [kind    |-> "SnapshotError",
                         message |-> <<"Snapshot file not found", path>>,
                         device  |-> device,
                         details |-> EmptyMap]]
        ELSE LET read == IF content = InvalidBytes
                         THEN [kind |-> "raise",
                               value |-> [kind |-> "UnicodeDecodeError",
                                          text |-> "invalid start byte"]]
                         ELSE FromJson(content, now)
             IN  IF read.kind = "raise" /\ read.value.kind \in LoadCatches
                 THEN [kind |-> "raise",
                       value |-> [kind    |-> "SnapshotError",
                                  message |-> <<"Corrupt snapshot file", path>>,
                                  device  |-> device,
                                  details |-> [error |-> read.value.text]]]
                 ELSE read

\* Path.glob(f"{device}_*.json"): whether a file name matches the pattern
Matches(name, device) ==
    LET prefix == Chars(device) \o <<"_">>
        suffix == Chars(".json")
        n == Chars(name)
    IN  /\ Len(n) >= Len(prefix) + Len(suffix)
        /\ StartsWith(n, prefix)
        /\ SubSeq(n, Len(n) - Len(suffix) + 1, Len(n)) = suffix

\* SnapshotEngine.list_snapshots.  seed fixes the order in which the
\* directory is enumerated.
ListSnapshots(files, device, seed) ==
    LET present == {p \in DOMAIN files : files[p] # Absent}
        found == IF device = None \/ device.text = ""
                 THEN present
                 ELSE {p \in present : Matches(p, device.text)}
    IN  Sorted(SetOrder(found, seed))

\* What a file may hold after something other than the engine wrote it
Corruptions ==
    LET good == ToJson(NewSnapshot("pre", "leaf", "2024-01-01T00:00:00+00:00", EmptyMap)).head
    IN  {InvalidBytes,
         Text([raw |-> "not json"]),
         Text([json |-> "array", items |-> <<>>]),
         Text([json |-> "object",
               members |-> [f \in SnapshotFields \ {"device"} |-> good.members[f]]]),
         Text([json |-> "object",
               members |-> [f \in SnapshotFields \cup {"vendor"} |->
                   IF f = "vendor" THEN [json |-> "string", text |-> "juniper"]
                   ELSE good.members[f]]])}

\* The captures that run at the same time, and the key they all write
Writers == {1, 2}
NoWriters == [w \in {} |-> None]
RaceDevice == "leaf"
RaceId == "pre"

\* A file that open(path, "w") has just truncated
Truncated == Text([raw |-> ""])

EngineCapture ==
    /\ writes < MaxWrites
    /\ writers = NoWriters
    /\ \E host \in Devices, id \in Ids, disk \in {"ok", "OSError"} :
         \E taken \in TakeOutcomes(id, host) :
            LET r == Capture(store, host, id, taken, disk)
            IN  /\ store' = r.files
                /\ captured' = IF r.kind = "return"
                               THEN [captured EXCEPT ![<<host, id>>] = r.value]
                               ELSE captured
                /\ writes' = IF r.kind = "return" THEN writes + 1 ELSE writes
                /\ engine_last' = [op |-> "capture", device |-> PyStr(host),
                                   snapshot_id |-> id, kind |-> r.kind,
                                   value |-> r.value, taken |-> taken.kind,
                                   at |-> writes']
    /\ UNCHANGED <<writers, coreVars, vendorVars, diffVars, validatorVars, topologyVars>>

EngineLoad ==
    /\ \E device \in Devices, id \in Ids, now \in Timestamps :
         LET r == Load(store, device, id, now)
         IN  engine_last' = [op |-> "load", device |-> PyStr(device),
                             snapshot_id |-> id, kind |-> r.kind,
                             value |-> r.value, taken |-> "no", at |-> writes]
    /\ UNCHANGED <<store, captured, writes, writers,
                   coreVars, vendorVars, diffVars, validatorVars, topologyVars>>

EngineList ==
    /\ writers = NoWriters
    /\ \E device \in {None, PyStr("")} \cup {PyStr(d) : d \in Devices},
          seed \in HashSeeds :
         engine_last' = [op |-> "list_snapshots", device |-> device,
                         snapshot_id |-> "", kind |-> "return",
                         value |-> [py |-> "list",
                                    items |-> ListSnapshots(store, device, seed)],
                         taken |-> "no", at |-> writes]
    /\ UNCHANGED <<store, captured, writes, writers,
                   coreVars, vendorVars, diffVars, validatorVars, topologyVars>>

\* The environment replaces the content of a persisted file
Tamper ==
    /\ writes < MaxWrites
    /\ writers = NoWriters
    /\ \E p \in Paths, c \in Corruptions :
         /\ store[p] # Absent
         /\ store' = [store EXCEPT ![p] = c]
    /\ writes' = writes + 1
    /\ UNCHANGED <<captured, engine_last, writers,
                   coreVars, vendorVars, diffVars, validatorVars, topologyVars>>

(* capture, with path.write_text(text) in the steps the operating system
   sees: open(path, "w") truncates the file, the text is written in two
   pieces, and the file is closed.  Several captures of the same key may be
   at any of these steps at the same time. *)

\* capture up to the open in write_text: take_snapshot has returned
PersistOpen ==
    /\ \E w \in Writers \ DOMAIN writers :
         \E taken \in TakeOutcomes(RaceId, RaceDevice) :
            /\ taken.kind = "return"
            /\ writers' = Put(writers, w, [snapshot |-> taken.value, pc |-> "opened"])
            /\ store' = [store EXCEPT ![SnapshotPath(taken.value.device,
                                                     taken.value.snapshot_id)] = Truncated]
    /\ UNCHANGED <<captured, writes, engine_last,
                   coreVars, vendorVars, diffVars, validatorVars, topologyVars>>

\* The first piece of the text reaches the file
PersistWrite ==
    /\ \E w \in DOMAIN writers :
         LET snapshot == writers[w].snapshot
             path == SnapshotPath(snapshot.device, snapshot.snapshot_id)
         IN  /\ writers[w].pc = "opened"
             /\ store' = [store EXCEPT ![path].head = ToJson(snapshot).head]
             /\ writers' = [writers EXCEPT ![w].pc = "written"]
    /\ UNCHANGED <<captured, writes, engine_last,
                   coreVars, vendorVars, diffVars, validatorVars, topologyVars>>

\* The rest of the text reaches the file, the file is closed and capture
\* returns the snapshot
PersistClose ==
    /\ \E w \in DOMAIN writers :
         LET snapshot == writers[w].snapshot
             path == SnapshotPath(snapshot.device, snapshot.snapshot_id)
         IN  /\ writers[w].pc = "written"
             /\ store' = [store EXCEPT ![path].tail = ToJson(snapshot).tail]
             /\ writers' = [writers EXCEPT ![w].pc = "done"]
             /\ captured' = [captured EXCEPT
                                ![<<snapshot.device, snapshot.snapshot_id>>] = snapshot]
             /\ engine_last' = [op |-> "capture", device |-> PyStr(snapshot.device),
                                snapshot_id |-> snapshot.snapshot_id, kind |-> "return",
                                value |-> snapshot, taken |-> "return", at |-> writes]
    /\ UNCHANGED <<writes, coreVars, vendorVars, diffVars, validatorVars, topologyVars>>

(* capture_multiple.  The drivers are given by their hostnames; fail is the
   place in the list of the first driver whose capture fails (0 when none
   does) and how says what fails there: take_snapshot or the write. *)

\* The hostnames of the drivers handed to capture_multiple
MultiHosts == {"leaf", "leaf_1", "leaf/1"}

\* Longest list of drivers
MaxDrivers == 3

\* The label and the time of the snapshots of the call
MultiId == "pre"
MultiTime == "2024-01-01T00:00:00+00:00"

RECURSIVE DriverLists(_)
DriverLists(n) ==
    IF n = 0 THEN {<<>>}
    ELSE LET shorter == DriverLists(n - 1)
         IN  shorter \cup {Append(l, h) : l \in shorter, h \in MultiHosts}

RECURSIVE CaptureEach(_, _, _, _, _)
\* for driver in drivers: results[driver.hostname] = self.capture(driver,
\* snapshot_id), from the i-th driver on
CaptureEach(sofar, drivers, id, plan, i) ==
    IF i > Len(drivers)
    THEN [kind |-> "return", value |-> sofar.results, files |-> sofar.files,
          results |-> sofar.results, contacted |-> sofar.contacted]
    ELSE LET host == drivers[i]
             taken == IF plan.fail = i /\ plan.how = "take"
                      THEN CHOOSE o \in TakeOutcomes(id, host) : o.kind = "raise"
                      ELSE [kind |-> "return",
                            value |-> NewSnapshot(id, host, plan.now, JsonRows)]
             disk == IF plan.fail = i /\ plan.how = "disk" THEN "OSError" ELSE "ok"
             r == Capture(sofar.files, host, id, taken, disk)
             contacted == Append(sofar.contacted, host)
         IN  IF r.kind = "raise"
             THEN [kind |-> "raise", value |-> r.value, files |-> r.files,
                   results |-> sofar.results, contacted |-> contacted]
             ELSE CaptureEach([files |-> r.files,
                               results |-> Put(sofar.results, host, r.value),
                               contacted |-> contacted],
                              drivers, id, plan, i + 1)

\* SnapshotEngine.capture_multiple: how it ends, the storage directory
\* afterwards, the map results and the drivers whose take_snapshot was called
CaptureMultiple(files, drivers, id, plan) ==
    CaptureEach([files |-> files, results |-> EmptyMap, contacted |-> <<>>],
                drivers, id, plan, 1)

EngineCaptureMultiple ==
    /\ writes < MaxWrites
    /\ writers = NoWriters
    /\ \E drivers \in DriverLists(MaxDrivers), id \in {MultiId},
          now \in {MultiTime}, fail \in 0..MaxDrivers, how \in {"take", "disk"} :
         /\ fail <= Len(drivers)
         /\ fail = 0 => how = "take"
         /\ LET r == CaptureMultiple(store, drivers, id,
                                     [fail |-> fail, how |-> how, now |-> now])
            IN  /\ store' = r.files
                /\ captured' = [pair \in DOMAIN captured |->
                                  IF pair[1] \in DOMAIN r.results /\ pair[2] = id
                                  THEN r.results[pair[1]] ELSE captured[pair]]
                /\ writes' = writes + Len(r.contacted)
                                - (IF r.kind = "raise" THEN 1 ELSE 0)
                /\ engine_last' = [op |-> "capture_multiple", device |-> None,
                                   snapshot_id |-> id, kind |-> r.kind,
                                   value |-> r.value,
                                   taken |-> IF r.kind = "raise" /\ how = "take"
                                             THEN "raise" ELSE "return",
                                   at |-> writes', drivers |-> drivers,
                                   results |-> r.results,
                                   contacted |-> r.contacted]
    /\ UNCHANGED <<writers, coreVars, vendorVars, diffVars, validatorVars,
                   topologyVars>>

-----------------------------------------------------------------------------
(* StateValidator (core/validator.py).  A call ends by returning a value or
   by raising: [kind |-> "return" | "raise", value |-> ...].  A field of a
   record is a tagged Python value; a record is a dict or None. *)

Returns(value) == [kind |-> "return", value |-> value]
Raises(exc, text) == [kind |-> "raise", value |-> [kind |-> exc, text |-> text]]
PyInt(n) == [py |-> "int", n |-> n]

\* The decimal strings the tables hold as counters
Numerals == ("0" :> 0) @@ ("2" :> 2)

\* str(v).lower() for a string or None
StrLower(v) ==
    CASE v.py = "str" -> Str(Lower(Chars(v.text)))
      [] v.py = "None" -> Str(Lower(Chars("None")))

\* int(v)
ToInt(v) ==
    CASE v.py = "int" -> Returns(v)
      [] v.py = "str" -> IF v.text \in DOMAIN Numerals
                         THEN Returns(PyInt(Numerals[v.text]))
                         ELSE Raises("ValueError", "invalid literal for int()")
      [] OTHER -> Raises("TypeError", "int() argument must be a string or a number")

\* The ValidationResult dataclass; device is the validator's _device
ValidationResult(name, passed, message, severity, expected, actual, details) ==
    [name |-> name, passed |-> passed, message |-> message, severity |-> severity,
     expected |-> expected, actual |-> actual, device |-> "", details |-> details]

\* A variant of the severity of a BGP result that grades a failure high
BgpSeverity_High(passed) == IF ~passed THEN "high" ELSE "info"

\* Severity.CRITICAL if not passed else Severity.INFO
BgpSeverity(passed) == IF ~passed THEN "critical" ELSE "info"

\* StateValidator.assert_bgp_neighbor_established
AssertBgpNeighborEstablished(bgp_data, peer) ==
    LET neighbor == Get(bgp_data, peer, None)
    IN  IF neighbor = None
        THEN Returns(ValidationResult("bgp_neighbor_established", FALSE,
                        <<"BGP peer", peer, "not found in neighbor table">>,
                        "critical", PyStr(Established), PyStr("not_found"), EmptyMap))
        ELSE LET state == StrLower(Get(neighbor, "state", PyStr("unknown")))
                 passed == state = Established
             IN  Returns(ValidationResult("bgp_neighbor_established", passed,
                            IF passed THEN <<"BGP peer", peer, "is", state>>
                            ELSE <<"BGP peer", peer, "expected ESTABLISHED, got", state>>,
                            BgpSeverity(passed), PyStr(Established), PyStr(state),
                            neighbor))

\* The results of a sequence of calls as a list, or the first exception
Collect(calls) ==
    IF \E i \in 1..Len(calls) : calls[i].kind = "raise"
    THEN calls[CHOOSE i \in 1..Len(calls) :
                  /\ calls[i].kind = "raise"
                  /\ \A j \in 1..(i - 1) : calls[j].kind = "return"]
    ELSE Returns([py |-> "list", items |-> [i \in 1..Len(calls) |-> calls[i].value]])

\* StateValidator.assert_all_bgp_established.  seed fixes the order in which
\* the keys of the dict come.
AssertAllBgpEstablished(bgp_data, seed) ==
    LET peers == Sorted(SetOrder(DOMAIN bgp_data, seed))
    IN  Collect([i \in 1..Len(peers) |-> AssertBgpNeighborEstablished(bgp_data, peers[i])])

\* StateValidator.assert_interface_up
AssertInterfaceUp(interface_data, interface_name) ==
    LET iface == Get(interface_data, interface_name, None)
    IN  IF iface = None
        THEN Returns(ValidationResult("interface_up", FALSE,
                        <<"Interface", interface_name, "not found">>,
                        "high", PyStr(Up), PyStr("not_found"), EmptyMap))
        ELSE LET oper_status == StrLower(Get(iface, "oper_status", PyStr("unknown")))
                 passed == oper_status = Up
             IN  Returns(ValidationResult("interface_up", passed,
                            IF passed THEN <<"Interface", interface_name, "is", oper_status>>
                            ELSE <<"Interface", interface_name, "expected UP, got", oper_status>>,
                            IF ~passed THEN "high" ELSE "info",
                            PyStr(Up), PyStr(oper_status), EmptyMap))

\* A variant of the comparison with the threshold that fails at equality
WithinThreshold_Strict(total_errors, threshold) == total_errors < threshold

\* total_errors <= threshold
WithinThreshold(total_errors, threshold) == total_errors <= threshold

\* StateValidator.assert_no_interface_errors
AssertNoInterfaceErrors(interface_data, interface_name, threshold) ==
    LET iface == Get(interface_data, interface_name, None)
        expected == [py |-> "str", parts |-> <<"errors <=", threshold>>]
    IN  IF iface = None
        THEN Returns(ValidationResult("no_interface_errors", FALSE,
                        <<"Interface", interface_name, "not found">>,
                        "high", expected, PyStr("not_found"), EmptyMap))
        ELSE LET input_errors == ToInt(Get(iface, "input_errors", PyInt(0)))
                 output_errors == ToInt(Get(iface, "output_errors", PyInt(0)))
             IN  IF input_errors.kind = "raise" THEN input_errors
                 ELSE IF output_errors.kind = "raise" THEN output_errors
                 ELSE LET total_errors == input_errors.value.n + output_errors.value.n
                          passed == WithinThreshold(total_errors, threshold)
                      IN  Returns(ValidationResult("no_interface_errors", passed,
                                     <<"Interface", interface_name, "has", total_errors,
                                       "errors (threshold:", threshold>>,
                                     IF ~passed THEN "medium" ELSE "info",
                                     expected, PyInt(total_errors),
                                     [input_errors  |-> input_errors.value,
                                      output_errors |-> output_errors.value]))

\* StateValidator.assert_route_exists; the expected values are a string or None
AssertRouteExists(routing_data, prefix, expected_next_hop, expected_protocol) ==
    LET route == Get(routing_data, prefix, None)
    IN  IF route = None
        THEN Returns(ValidationResult("route_exists", FALSE,
                        <<"Route", prefix, "not found in routing table">>,
                        "critical", PyStr(prefix), PyStr("not_found"), EmptyMap))
        ELSE LET next_hop_issue == /\ expected_next_hop # None
                                   /\ Get(route, "next_hop", None) # expected_next_hop
                 protocol_issue == /\ expected_protocol # None
                                   /\ Get(route, "protocol", None) # expected_protocol
                 passed == ~next_hop_issue /\ ~protocol_issue
             IN  Returns(ValidationResult("route_exists", passed,
                            IF passed THEN <<"Route", prefix, "present and valid">>
                            ELSE <<"Route", prefix, next_hop_issue, protocol_issue>>,
                            IF ~passed THEN "critical" ELSE "info",
                            PyStr(prefix), route, EmptyMap))

\* StateValidator.assert_evpn_route_type; expected_count is an int or None
AssertEvpnRouteType(evpn_data, route_type, expected_count) ==
    IF \E rd \in DOMAIN evpn_data : evpn_data[rd] = None
    THEN Raises("AttributeError", "'NoneType' object has no attribute 'get'")
    ELSE LET matching == {rd \in DOMAIN evpn_data :
                             Get(evpn_data[rd], "route_type", None) = PyInt(route_type)}
             count == Cardinality(matching)
             passed == IF expected_count # None THEN count = expected_count.n
                       ELSE count > 0
         IN  Returns(ValidationResult("evpn_route_type", passed,
                        <<"EVPN type", route_type, "found", count, "expected", expected_count>>,
                        IF ~passed THEN "high" ELSE "info",
                        IF expected_count # None THEN expected_count ELSE PyStr(">0"),
                        PyInt(count),
                        [matching_routes |-> [rd \in matching |-> evpn_data[rd]]]))

\* StateValidator.assert_lldp_neighbor; expected_neighbor is a string or None
AssertLldpNeighbor(lldp_data, local_interface, expected_neighbor) ==
    LET neighbor == Get(lldp_data, local_interface, None)
        expected == IF expected_neighbor # None THEN expected_neighbor ELSE PyStr("any")
    IN  IF neighbor = None
        THEN Returns(ValidationResult("lldp_neighbor", FALSE,
                        <<"No LLDP neighbor on", local_interface>>,
                        "high", expected, PyStr("not_found"), EmptyMap))
        ELSE LET remote_system == Get(neighbor, "remote_system", PyStr(""))
             IN  IF expected_neighbor # None /\ remote_system # expected_neighbor
                 THEN Returns(ValidationResult("lldp_neighbor", FALSE,
                                 <<"LLDP on", local_interface, "expected",
                                   expected_neighbor, "got", remote_system>>,
                                 "high", expected_neighbor, remote_system, EmptyMap))
                 ELSE Returns(ValidationResult("lldp_neighbor", TRUE,
                                 <<"LLDP neighbor", remote_system, "present on",
                                   local_interface>>,
                                 "info", expected, remote_system, EmptyMap))

RECURSIVE InterfaceCalls(_, _)
\* run_full_validation's loop over the interfaces: two assertions for each
InterfaceCalls(interface_data, names) ==
    IF names = <<>> THEN <<>>
    ELSE <<AssertInterfaceUp(interface_data, Head(names)),
           AssertNoInterfaceErrors(interface_data, Head(names), 0)>>
           \o InterfaceCalls(interface_data, Tail(names))

\* StateValidator.run_full_validation.  seed fixes the order in which the
\* keys of each dict come.
RunFullValidation(data, seed) ==
    LET peers == SetOrder(DOMAIN data.bgp_neighbors, seed)
        prefixes == SetOrder(DOMAIN data.routing_table, seed)
        locals == SetOrder(DOMAIN data.lldp_neighbors, seed)
        calls ==
            [i \in 1..Len(peers) |->
                AssertBgpNeighborEstablished(data.bgp_neighbors, peers[i])]
            \o InterfaceCalls(data.interfaces, SetOrder(DOMAIN data.interfaces, seed))
            \o [i \in 1..Len(prefixes) |->
                AssertRouteExists(data.routing_table, prefixes[i], None, None)]
            \o [i \in 1..Len(locals) |->
                AssertLldpNeighbor(data.lldp_neighbors, locals[i], None)]
            \o (IF data.evpn_routes # EmptyMap
                THEN <<AssertEvpnRouteType(data.evpn_routes, 2, None),
                       AssertEvpnRouteType(data.evpn_routes, 5, None)>>
                ELSE <<>>)
        results == Collect(calls)
    IN  IF results.kind = "raise" THEN results
        ELSE Returns([device |-> "", results |-> results.value.items])

\* The state tables the validator is handed: records that are null, that
\* lack the field, that spell the state in several cases, counters that are
\* integers, decimal strings or not numbers
ValidatorData ==
    LET bgp_rows == {None, EmptyMap, [state |-> None]}
                      \cup {[state |-> PyStr(t)] :
                              t \in {"Established", "ESTABLISHED", "established", "Active"}}
        bgp == {EmptyMap} \cup {Single("10.0.0.1", row) : row \in bgp_rows}
                 \cup {Put(Single("10.0.0.1", row), "10.0.0.2",
                           [state |-> PyStr("Established")]) :
                          row \in {None, [state |-> PyStr("Active")],
                                   [state |-> PyStr("established")]}}
        iface_rows == {None, EmptyMap, [input_errors |-> PyStr("n/a")],
                       [oper_status |-> PyStr("UP"), output_errors |-> PyStr("2")]}
                        \cup {[input_errors |-> PyInt(i), output_errors |-> PyInt(o)] :
                                i \in {0, 1}, o \in {0, 2}}
        interfaces == {EmptyMap} \cup {Single("et-0", row) : row \in iface_rows}
        links == {[routes |-> EmptyMap, lldp |-> EmptyMap],
                  [routes |-> Single("10.0.0.0/8", [protocol |-> PyStr("bgp")]),
                   lldp   |-> Single("et-0", [remote_system |-> PyStr("leaf")])]}
        evpn == {EmptyMap, Single("rd1", None)}
                  \cup {Single("rd1", [route_type |-> PyInt(t)]) : t \in {2, 5}}
    IN  {[bgp_neighbors |-> b, interfaces |-> i, routing_table |-> l.routes,
          lldp_neighbors |-> l.lldp, evpn_routes |-> e] :
            b \in bgp, i \in interfaces, l \in links, e \in evpn}

\* The last call: the method, its key and threshold arguments, how it ended
Call(method, key, threshold, result) ==
    [method |-> method, key |-> key, threshold |-> threshold,
     kind |-> result.kind, value |-> result.value]

VAssertBgp ==
    /\ \E peer \in {"10.0.0.1", "10.0.0.2"} :
         validator_last' = Call("assert_bgp_neighbor_established", peer, 0,
                                AssertBgpNeighborEstablished(validator_data.bgp_neighbors, peer))
    /\ UNCHANGED <<validator_data, coreVars, vendorVars, diffVars, storeVars, topologyVars>>

VAssertAllBgp ==
    /\ \E seed \in HashSeeds :
         validator_last' = Call("assert_all_bgp_established", "", 0,
                                AssertAllBgpEstablished(validator_data.bgp_neighbors, seed))
    /\ UNCHANGED <<validator_data, coreVars, vendorVars, diffVars, storeVars, topologyVars>>

VAssertInterfaceUp ==
    /\ \E name \in {"et-0", "Lo0"} :
         validator_last' = Call("assert_interface_up", name, 0,
                                AssertInterfaceUp(validator_data.interfaces, name))
    /\ UNCHANGED <<validator_data, coreVars, vendorVars, diffVars, storeVars, topologyVars>>

VAssertNoInterfaceErrors ==
    /\ \E name \in {"et-0", "Lo0"}, threshold \in {0, 2} :
         validator_last' = Call("assert_no_interface_errors", name, threshold,
                                AssertNoInterfaceErrors(validator_data.interfaces,
                                                        name, threshold))
    /\ UNCHANGED <<validator_data, coreVars, vendorVars, diffVars, storeVars, topologyVars>>

VAssertRouteExists ==
    /\ \E prefix \in {"10.0.0.0/8"}, protocol \in {None, PyStr("bgp"), PyStr("ospf")} :
         validator_last' = Call("assert_route_exists", prefix, 0,
                                AssertRouteExists(validator_data.routing_table,
                                                  prefix, None, protocol))
    /\ UNCHANGED <<validator_data, coreVars, vendorVars, diffVars, storeVars, topologyVars>>

VAssertEvpnRouteType ==
    /\ \E route_type \in {2, 5}, expected_count \in {None, PyInt(1)} :
         validator_last' = Call("assert_evpn_route_type", "", route_type,
                                AssertEvpnRouteType(validator_data.evpn_routes,
                                                    route_type, expected_count))
    /\ UNCHANGED <<validator_data, coreVars, vendorVars, diffVars, storeVars, topologyVars>>

VAssertLldpNeighbor ==
    /\ \E expected \in {None, PyStr("leaf"), PyStr("spine1")} :
         validator_last' = Call("assert_lldp_neighbor", "et-0", 0,
                                AssertLldpNeighbor(validator_data.lldp_neighbors,
                                                   "et-0", expected))
    /\ UNCHANGED <<validator_data, coreVars, vendorVars, diffVars, storeVars, topologyVars>>

VRunFullValidation ==
    /\ \E seed \in HashSeeds :
         validator_last' = Call("run_full_validation", "", 0,
                                RunFullValidation(validator_data, seed))
    /\ UNCHANGED <<validator_data, coreVars, vendorVars, diffVars, storeVars, topologyVars>>

-----------------------------------------------------------------------------
(* TopologyVerifier (analysis/topology_verifier.py).  A dict is given in
   insertion order: the LLDP data is a sequence of rows, one per device key,
   and a neighbor table a sequence of entries, one per local interface.  The
   text of an f-string is the sequence of its pieces. *)

\* Link(local_device=..., local_interface=..., remote_device=..., remote_interface=...)
Link(local_device, local_interface, remote_device, remote_interface) ==
    [local_device |-> local_device, local_interface |-> local_interface,
     remote_device |-> remote_device, remote_interface |-> remote_interface]

\* TopologyIssue(issue_type=..., description=..., affected_devices=..., severity=...)
TopologyIssue(issue_type, description, affected_devices, severity) ==
    [py |-> "TopologyIssue", issue_type |-> issue_type,
     description |-> description, affected_devices |-> affected_devices,
     severity |-> severity]

\* TopologyVerifier(strict)
NewVerifier(strict) ==
    [strict |-> strict, adjacency |-> EmptyMap, links |-> <<>>, devices |-> {}]

\* A variant that keeps what the graph held
ClearedGraph_Kept(t) == t

\* self._adjacency.clear(); self._links.clear(); self._devices.clear()
ClearedGraph(t) == [t EXCEPT !.adjacency = EmptyMap, !.links = <<>>, !.devices = {}]

\* neighbor_info.get(key, "")
InfoGet(neighbor_info, key) ==
    IF key \in DOMAIN neighbor_info THEN neighbor_info[key] ELSE ""

\* A variant that registers the neighbor whatever its name is
Unresolved_Never(remote_device) == FALSE

\* not remote_device
Unresolved(remote_device) == remote_device = ""

\* The body of the loop over neighbors.items()
AddNeighbor(t, device, local_if, neighbor_info) ==
    LET remote_device == InfoGet(neighbor_info, "remote_system")
        remote_port == InfoGet(neighbor_info, "remote_port")
        own == IF device \in DOMAIN t.adjacency THEN t.adjacency[device]
               ELSE EmptyMap
    IN  IF Unresolved(remote_device) THEN t
        ELSE [t EXCEPT
                !.devices = @ \cup {remote_device},
                !.adjacency = Put(@, device, Put(own, local_if, remote_device)),
                !.links = Append(@, Link(device, local_if, remote_device,
                                         remote_port))]

RECURSIVE AddNeighbors(_, _, _)
\* for local_if, neighbor_info in neighbors.items()
AddNeighbors(t, device, neighbors) ==
    IF neighbors = <<>> THEN t
    ELSE AddNeighbors(AddNeighbor(t, device, Head(neighbors).local_if,
                                  Head(neighbors).info),
                      device, Tail(neighbors))

RECURSIVE AddDevices(_, _)
\* for device, neighbors in lldp_by_device.items()
AddDevices(t, lldp_by_device) ==
    IF lldp_by_device = <<>> THEN t
    ELSE LET row == Head(lldp_by_device)
             seen == [t EXCEPT !.devices = @ \cup {row.device}]
         IN  AddDevices(AddNeighbors(seen, row.device, row.neighbors),
                        Tail(lldp_by_device))

\* build_from_lldp(lldp_by_device): the verifier afterwards
BuildFromLldp(t, lldp_by_device) == AddDevices(ClearedGraph(t), lldp_by_device)

\* self._adjacency.get(device, {}).values()
AdjacentTo(t, device) ==
    IF device \in DOMAIN t.adjacency
    THEN {t.adjacency[device][i] : i \in DOMAIN t.adjacency[device]}
    ELSE {}

\* A variant that reports a link seen from one side as missing
PairIssue_OneSided(t, device_a, device_b) ==
    IF device_b \in AdjacentTo(t, device_a) /\ device_a \in AdjacentTo(t, device_b)
    THEN <<>>
    ELSE <<TopologyIssue("missing_link",
                         <<"Expected link between ", device_a, " and ", device_b,
                           " not found in LLDP data">>,
                         <<device_a, device_b>>, "critical")>>

\* The body of the loop over expected_links: the issues it appends
PairIssue(t, device_a, device_b) ==
    LET a_to_b == device_b \in AdjacentTo(t, device_a)
        b_to_a == device_a \in AdjacentTo(t, device_b)
    IN  IF ~a_to_b /\ ~b_to_a
        THEN <<TopologyIssue("missing_link",
                             <<"Expected link between ", device_a, " and ", device_b,
                               " not found in LLDP data">>,
                             <<device_a, device_b>>, "critical")>>
        ELSE IF a_to_b # b_to_a
        THEN <<TopologyIssue("unidirectional",
                             <<"Unidirectional link between ", device_a, " and ",
                               device_b, ": only visible from one side">>,
                             <<device_a, device_b>>, "high")>>
        ELSE <<>>

\* A variant that stops after the first expected pair
ExpectedIssues_First(t, expected_links) ==
    IF expected_links = <<>> THEN <<>>
    ELSE PairIssue(t, Head(expected_links)[1], Head(expected_links)[2])

RECURSIVE ExpectedIssues(_, _)
\* for device_a, device_b in expected_links
ExpectedIssues(t, expected_links) ==
    IF expected_links = <<>> THEN <<>>
    ELSE PairIssue(t, Head(expected_links)[1], Head(expected_links)[2])
           \o ExpectedIssues(t, Tail(expected_links))

\* [i.description for i in issues]
Descriptions(issues) == [i \in 1..Len(issues) |-> issues[i].description]

\* A variant that raises whenever the verifier is strict
StrictFailure_Always(t, issues) == t.strict

\* self._strict and issues
StrictFailure(t, issues) == t.strict /\ issues # <<>>

\* verify_expected_links(expected_links)
VerifyExpectedLinks(t, expected_links) ==
    LET issues == ExpectedIssues(t, expected_links)
    IN  IF StrictFailure(t, issues)
        THEN [kind |-> "raise",
              value |-> [kind |-> "TopologyError",
                         text |-> "Topology verification found {len(issues)} issue(s)",
                         found |-> Len(issues),
                         details |-> [issues |-> Descriptions(issues)]]]
        ELSE Returns([py |-> "list", items |-> issues])

\* A variant that looks at every link, whatever pairs it has seen
PairChecked_Never(pair, checked) == FALSE

\* pair in checked
PairChecked(pair, checked) == pair \in checked

RECURSIVE ScanLinks(_, _, _)
\* for link in self._links, with the set checked
ScanLinks(t, links, checked) ==
    IF links = <<>> THEN <<>>
    ELSE LET link == Head(links)
             pair == Sorted(<<link.local_device, link.remote_device>>)
             forward == link.remote_device \in AdjacentTo(t, link.local_device)
             reverse == link.local_device \in AdjacentTo(t, link.remote_device)
         IN  IF PairChecked(pair, checked) THEN ScanLinks(t, Tail(links), checked)
             ELSE (IF forward # reverse
                   THEN <<TopologyIssue("unidirectional",
                                        <<"Unidirectional LLDP between ",
                                          link.local_device, " and ",
                                          link.remote_device>>,
                                        <<link.local_device, link.remote_device>>,
                                        "high")>>
                   ELSE <<>>)
                  \o ScanLinks(t, Tail(links), checked \cup {pair})

\* detect_unidirectional_links()
DetectUnidirectionalLinks(t) ==
    Returns([py |-> "list", items |-> ScanLinks(t, t.links, {})])

\* A variant that follows a link only from its local end
Directed(links) ==
    LET at == 1..Len(links)
    IN  [d \in {links[i].local_device : i \in at} |->
            {links[i].remote_device : i \in {j \in at : links[j].local_device = d}}]

\* undirected: every link read in both directions
Undirected(links) ==
    LET at == 1..Len(links)
        ends == {links[i].local_device : i \in at}
                  \cup {links[i].remote_device : i \in at}
    IN  [d \in ends |->
            {links[i].remote_device : i \in {j \in at : links[j].local_device = d}}
              \cup {links[i].local_device :
                      i \in {j \in at : links[j].remote_device = d}}]

\* One iteration of the while loop: node = queue.pop(0) and what follows.
\* The neighbors of the node are a set, read in the order of the seed.
BfsIteration(queue, visited, undirected, seed) ==
    LET node == Head(queue)
        seen == visited \cup {node}
        neighbors == IF node \in DOMAIN undirected
                     THEN SetOrder(undirected[node], seed) ELSE <<>>
        New(neighbor) == neighbor \notin seen
    IN  IF node \in visited
        THEN [queue |-> Tail(queue), visited |-> visited]
        ELSE [queue |-> Tail(queue) \o SelectSeq(neighbors, New), visited |-> seen]

RECURSIVE BfsVisited(_, _, _, _)
\* while queue: the set visited when the loop ends
BfsVisited(queue, visited, undirected, seed) ==
    IF queue = <<>> THEN visited
    ELSE LET next == BfsIteration(queue, visited, undirected, seed)
         IN  BfsVisited(next.queue, next.visited, undirected, seed)

RECURSIVE Join(_, _)
\* separator.join(names): its pieces
Join(names, separator) ==
    IF Len(names) <= 1 THEN names
    ELSE <<Head(names), separator>> \o Join(Tail(names), separator)

\* assert_fully_connected() from the end of the loop on
Connectivity(t, visited, seed) ==
    LET unreachable == t.devices \ visited
        names == Sorted(SetOrder(unreachable, seed))
        issue == TopologyIssue("disconnected",
                               <<"Topology graph is disconnected. Unreachable devices: ">>
                                 \o Join(names, ", "),
                               names, "critical")
    IN  IF unreachable # {}
        THEN (IF t.strict
              THEN [kind |-> "raise",
                    value |-> [kind |-> "TopologyError", text |-> issue.description]]
              ELSE Returns(issue))
        ELSE Returns(None)

\* assert_fully_connected(), where next(iter(self._devices)) gives start
AssertFullyConnected(t, start, seed) ==
    IF t.devices = {} THEN Returns(None)
    ELSE Connectivity(t, BfsVisited(<<start>>, {}, Undirected(t.links), seed), seed)

\* Neighbor table entries: a named neighbor, one whose remote_system is
\* empty, one without a remote_system
Neighbor(remote_system) == [remote_system |-> remote_system, remote_port |-> "et-0"]
Unnamed == [remote_system |-> "", remote_port |-> "et-0"]
NoSystem == [remote_port |-> "et-0"]

Entry(local_if, info) == [local_if |-> local_if, info |-> info]

\* The rows the LLDP data may hold for a device key: none, or one of the
\* neighbor tables
RowsFor(device, tables) ==
    {<<>>} \cup {<<[device |-> device, neighbors |-> n]>> : n \in tables}

LldpInputs ==
    {a \o b \o c :
       a \in RowsFor("A", {<<Entry("e1", Neighbor("B"))>>,
                           <<Entry("e1", Neighbor("B")), Entry("e2", Neighbor("B"))>>,
                           <<Entry("e1", Neighbor("B")), Entry("e2", Neighbor("C"))>>,
                           <<Entry("e1", Neighbor("A"))>>,
                           <<Entry("e1", Unnamed), Entry("e2", NoSystem)>>}),
       b \in RowsFor("B", {<<>>,
                           <<Entry("e1", Neighbor("A"))>>,
                           <<Entry("e1", Neighbor("A")), Entry("e2", Neighbor("C"))>>}),
       c \in RowsFor("C", {<<>>, <<Entry("e1", Neighbor("B"))>>})}

\* The expected pairs a caller may name
ExpectedPairs == {<<"A", "B">>, <<"B", "A">>, <<"B", "C">>}

\* Longest list of expected pairs
MaxExpected == 2

RECURSIVE ListsOf(_, _)
ListsOf(items, n) ==
    IF n = 0 THEN {<<>>}
    ELSE LET shorter == ListsOf(items, n - 1)
         IN  shorter \cup {Append(l, i) : l \in shorter, i \in items}

ExpectedLists == ListsOf(ExpectedPairs, MaxExpected)

NoBfs == [pc |-> "idle"]

\* The record of a call on the verifier: the call, how it ended, the LLDP
\* data the graph was last built from, and whether the graph held links
\* when it was last built
TopologyCall(method, arg, result, lldp) ==
    [op |-> method, arg |-> arg, kind |-> result.kind, value |-> result.value,
     built |-> TRUE, rebuilt |-> FALSE, lldp |-> lldp]

NeverCalled == [op |-> "none", built |-> FALSE, rebuilt |-> FALSE, lldp |-> <<>>]

TBuild ==
    /\ bfs = NoBfs
    /\ \E lldp_by_device \in LldpInputs :
         /\ topo' = BuildFromLldp(topo, lldp_by_device)
         /\ topo_last' = [TopologyCall("build_from_lldp", lldp_by_device,
                                       Returns(None), lldp_by_device)
                            EXCEPT !.rebuilt = topo.links # <<>>]
    /\ UNCHANGED <<bfs, coreVars, vendorVars, diffVars, storeVars, validatorVars>>

TVerify ==
    /\ bfs = NoBfs
    /\ \E expected_links \in ExpectedLists :
         topo_last' = [TopologyCall("verify_expected_links", expected_links,
                                    VerifyExpectedLinks(topo, expected_links),
                                    topo_last.lldp)
                         EXCEPT !.built = topo_last.built,
                                !.rebuilt = topo_last.rebuilt]
    /\ UNCHANGED <<topo, bfs, coreVars, vendorVars, diffVars, storeVars,
                   validatorVars>>

TDetect ==
    /\ bfs = NoBfs
    /\ topo_last' = [TopologyCall("detect_unidirectional_links", None,
                                  DetectUnidirectionalLinks(topo), topo_last.lldp)
                       EXCEPT !.built = topo_last.built,
                                !.rebuilt = topo_last.rebuilt]
    /\ UNCHANGED <<topo, bfs, coreVars, vendorVars, diffVars, storeVars,
                   validatorVars>>

TAssert ==
    /\ bfs = NoBfs
    /\ \E start \in topo.devices \cup {""}, seed \in HashSeeds :
         /\ start = "" <=> topo.devices = {}
         /\ topo_last' = [TopologyCall("assert_fully_connected", start,
                                       AssertFullyConnected(topo, start, seed),
                                       topo_last.lldp)
                            EXCEPT !.built = topo_last.built,
                                !.rebuilt = topo_last.rebuilt]
    /\ UNCHANGED <<topo, bfs, coreVars, vendorVars, diffVars, storeVars,
                   validatorVars>>

(* assert_fully_connected() in the steps of its loop.  While it runs, bfs
   holds its locals: the queue, the set visited, the map undirected, and the
   orders in which the sets yield their elements. *)

\* assert_fully_connected() up to the loop; with no devices it returns
BfsBegin ==
    /\ bfs = NoBfs
    /\ IF topo.devices = {}
       THEN /\ topo_last' = [TopologyCall("assert_fully_connected", "",
                                          Returns(None), topo_last.lldp)
                               EXCEPT !.built = topo_last.built,
                                !.rebuilt = topo_last.rebuilt]
            /\ UNCHANGED bfs
       ELSE /\ \E start \in topo.devices, seed \in HashSeeds :
                 bfs' = [pc |-> "loop", start |-> start, seed |-> seed,
                         undirected |-> Undirected(topo.links),
                         queue |-> <<start>>, visited |-> {}]
            /\ UNCHANGED topo_last
    /\ UNCHANGED <<topo, coreVars, vendorVars, diffVars, storeVars, validatorVars>>

\* One iteration of while queue
BfsStep ==
    /\ bfs.pc = "loop"
    /\ bfs.queue # <<>>
    /\ LET next == BfsIteration(bfs.queue, bfs.visited, bfs.undirected, bfs.seed)
       IN  bfs' = [bfs EXCEPT !.queue = next.queue, !.visited = next.visited]
    /\ UNCHANGED <<topo, topo_last, coreVars, vendorVars, diffVars, storeVars,
                   validatorVars>>

\* The queue is empty: the rest of assert_fully_connected()
BfsEnd ==
    /\ bfs.pc = "loop"
    /\ bfs.queue = <<>>
    /\ topo_last' = [TopologyCall("assert_fully_connected", bfs.start,
                                  Connectivity(topo, bfs.visited, bfs.seed),
                                  topo_last.lldp)
                       EXCEPT !.built = topo_last.built,
                                !.rebuilt = topo_last.rebuilt]
    /\ bfs' = NoBfs
    /\ UNCHANGED <<topo, coreVars, vendorVars, diffVars, storeVars, validatorVars>>

-----------------------------------------------------------------------------
(* Specifications.  Each one runs the operations of one part of the program
   and holds the variables of the other parts at their initial values. *)

VendorIdle ==
    /\ vendor = "juniper"
    /\ drv = NewDriver
    /\ last = NoCall

DiffIdle ==
    /\ pre = None
    /\ post = None
    /\ engine_diff = None
    /\ driver_diff = None

StoreIdle ==
    /\ store = EmptyStore
    /\ captured = [pair \in Devices \X Ids |-> None]
    /\ writes = 0
    /\ engine_last = None
    /\ writers = NoWriters

ValidatorIdle ==
    /\ validator_data = None
    /\ validator_last = None

TopologyIdle ==
    /\ topo = NewVerifier(FALSE)
    /\ topo_last = NeverCalled
    /\ bfs = NoBfs

InitCore ==
    /\ StoreIdle
    /\ TopologyIdle
    /\ ValidatorIdle
    /\ hostname \in Hostnames
    /\ deviceData = SmallData
    /\ CoreIdle
    /\ VendorIdle
    /\ DiffIdle

NextCore ==
    \/ CallRetry
    \/ RetryIteration
    \/ RetryReturn
    \/ CallTakeSnapshot
    \/ SnapshotContinue
    \/ WithEnter
    \/ BlockOp
    \/ BlockLeave
    \/ WithExit
    \/ Reset

vars == <<coreVars, vendorVars, diffVars, storeVars, validatorVars,
          topologyVars>>

SpecCore == InitCore /\ [][NextCore]_vars

InitVendor ==
    /\ StoreIdle
    /\ TopologyIdle
    /\ ValidatorIdle
    /\ vendor \in Vendors
    /\ drv = NewDriver
    /\ last = NoCall
    /\ hostname = "spine1"
    /\ deviceData = SmallData
    /\ CoreIdle
    /\ DiffIdle

NextVendor ==
    \/ VConnect
    \/ VDisconnect
    \/ VGetter
    \/ VPushConfig
    \/ VExecuteCommand
    \/ VValidateConnectivity

SpecVendor == InitVendor /\ [][NextVendor]_vars

InitHealth ==
    /\ StoreIdle
    /\ TopologyIdle
    /\ ValidatorIdle
    /\ hostname = "spine1"
    /\ deviceData = HealthData
    /\ CoreIdle
    /\ VendorIdle
    /\ DiffIdle

NextHealth ==
    \/ CallHealthCheck
    \/ RetryIteration
    \/ HealthContinue
    \/ Reset

SpecHealth == InitHealth /\ [][NextHealth]_vars

InitDiff ==
    /\ StoreIdle
    /\ TopologyIdle
    /\ ValidatorIdle
    /\ pre \in Snapshots("pre-change", {"spine1"}, {EmptyMap})
    /\ post \in Snapshots("post-change", Hostnames, RouteMaps)
    /\ engine_diff = None
    /\ driver_diff = None
    /\ hostname = "spine1"
    /\ deviceData = SmallData
    /\ CoreIdle
    /\ VendorIdle

NextDiff ==
    \/ EngineDiff
    \/ DriverCompare

SpecDiff == InitDiff /\ [][NextDiff]_vars

InitStore ==
    /\ StoreIdle
    /\ TopologyIdle
    /\ ValidatorIdle
    /\ hostname = "spine1"
    /\ deviceData = SmallData
    /\ CoreIdle
    /\ VendorIdle
    /\ DiffIdle

NextStore ==
    \/ EngineCapture
    \/ EngineLoad
    \/ EngineList
    \/ Tamper

SpecStore == InitStore /\ [][NextStore]_vars

NextStoreRace ==
    \/ PersistOpen
    \/ PersistWrite
    \/ PersistClose
    \/ EngineLoad

SpecStoreRace == InitStore /\ [][NextStoreRace]_vars

NextMulti ==
    \/ EngineCaptureMultiple

SpecMulti == InitStore /\ [][NextMulti]_vars

InitValidator ==
    /\ validator_data \in ValidatorData
    /\ validator_last = None
    /\ StoreIdle
    /\ TopologyIdle
    /\ hostname = "spine1"
    /\ deviceData = SmallData
    /\ CoreIdle
    /\ VendorIdle
    /\ DiffIdle

NextValidator ==
    \/ VAssertBgp
    \/ VAssertAllBgp
    \/ VAssertInterfaceUp
    \/ VAssertNoInterfaceErrors
    \/ VAssertRouteExists
    \/ VAssertEvpnRouteType
    \/ VAssertLldpNeighbor
    \/ VRunFullValidation

SpecValidator == InitValidator /\ [][NextValidator]_vars

InitTopology ==
    /\ \E strict \in BOOLEAN : topo = NewVerifier(strict)
    /\ topo_last = NeverCalled
    /\ bfs = NoBfs
    /\ StoreIdle
    /\ ValidatorIdle
    /\ hostname = "spine1"
    /\ deviceData = SmallData
    /\ CoreIdle
    /\ VendorIdle
    /\ DiffIdle

NextTopology ==
    \/ TBuild
    \/ TVerify
    \/ TDetect
    \/ TAssert

SpecTopology == InitTopology /\ [][NextTopology]_vars

\* The LLDP data the search is followed step by step on: parallel links, a
\* link to the device itself, links answered from the other side, devices
\* without links, no data
ConnectivityInputs ==
    {a \o b \o c :
       a \in RowsFor("A", {<<Entry("e1", Neighbor("B")), Entry("e2", Neighbor("B"))>>,
                           <<Entry("e1", Neighbor("B")), Entry("e2", Neighbor("C"))>>,
                           <<Entry("e1", Neighbor("A"))>>}),
       b \in RowsFor("B", {<<Entry("e1", Neighbor("A")), Entry("e2", Neighbor("C"))>>}),
       c \in RowsFor("C", {<<>>})}

\* A verifier on which build_from_lldp has been called once
InitConnectivity ==
    /\ \E strict \in BOOLEAN, lldp_by_device \in ConnectivityInputs :
          /\ topo = BuildFromLldp(NewVerifier(strict), lldp_by_device)
          /\ topo_last = TopologyCall("build_from_lldp", lldp_by_device,
                                      Returns(None), lldp_by_device)
    /\ bfs = NoBfs
    /\ StoreIdle
    /\ ValidatorIdle
    /\ hostname = "spine1"
    /\ deviceData = SmallData
    /\ CoreIdle
    /\ VendorIdle
    /\ DiffIdle

NextConnectivity ==
    \/ BfsBegin
    \/ BfsStep
    \/ BfsEnd

\* The loop of assert_fully_connected is sequential code: an iteration that
\* can run does run
SpecConnectivity ==
    InitConnectivity /\ [][NextConnectivity]_vars
      /\ WF_vars(BfsStep) /\ WF_vars(BfsEnd)

-----------------------------------------------------------------------------
(* Claims about the vendor drivers, checked under SpecVendor. *)

Cleared(d) ==
    /\ d.device = NoHandle
    /\ d.napalm = NoHandle
    /\ d.netmiko = NoHandle
    /\ d.eapi = NoHandle

\* C5: validate_connectivity() never closes a session it did not open.
\* Called on a connected driver it calls neither connect() nor disconnect(),
\* closes no handle, and the driver is still connected whether it returns
\* or raises.  Called on a driver that is not connected it calls connect()
\* first; once connect() has succeeded it runs the command and then calls
\* disconnect(); it returns only after all three; and on every exit path the
\* driver is not connected afterwards.
C5_ValidateKeepsSession ==
    last.method = "validate_connectivity" =>
        IF last.pre.connected
        THEN /\ Count(last.calls, "connect") = 0
             /\ Count(last.calls, "disconnect") = 0
             /\ last.calls = <<"execute_command">>
             /\ drv.connected
             /\ drv.closed = last.pre.closed
        ELSE /\ last.calls \in {<<"connect">>, <<"connect", "disconnect">>,
                                <<"connect", "execute_command", "disconnect">>}
             /\ (last.raised = None) =>
                    last.calls = <<"connect", "execute_command", "disconnect">>
             /\ (last.raised # None /\ last.raised.kind = "CommandExecutionError") =>
                    last.calls = <<"connect", "execute_command", "disconnect">>
             /\ (last.raised = ConnectionError("Empty response from device")) =>
                    last.calls = <<"connect", "execute_command", "disconnect">>
             /\ ~drv.connected

\* A call on a connected driver that ended in the empty-output ConnectionError
C5_Witness ==
    /\ last.method = "validate_connectivity"
    /\ last.pre.connected
    /\ last.raised = ConnectionError("Empty response from device")
    /\ drv.connected

\* C6: in every vendor driver a failed transport call of a getter surfaces
\* as CommandExecutionError, of connect as ConnectionError, of push_config as
\* ConfigPushError; the failure is never turned into a returned value.
C6_ErrorKinds ==
    last.failed =>
        /\ last.raised # None
        /\ (last.method \in GetterMethods) =>
               last.raised.kind = "CommandExecutionError"
        /\ (last.method = "connect") => last.raised.kind = "ConnectionError"
        /\ (last.method = "push_config") => last.raised.kind = "ConfigPushError"

\* C7: disconnect() is idempotent in every vendor driver.  No handle's close
\* operation is ever called twice; disconnect() never raises and leaves the
\* driver not connected with every handle cleared; and on a driver that is
\* not connected and holds no handle (disconnected before, or never
\* connected) it changes nothing, so it makes no close call.
C7_DisconnectIdempotent ==
    /\ \A i, j \in 1..Len(drv.closed) : i # j => drv.closed[i] # drv.closed[j]
    /\ last.method = "disconnect" =>
          /\ last.raised = None
          /\ ~drv.connected
          /\ Cleared(drv)
          /\ (~last.pre.connected /\ Cleared(last.pre)) => drv = last.pre

\* A second disconnect(), after one that closed a session
C7_Witness ==
    /\ last.method = "disconnect"
    /\ ~last.pre.connected
    /\ Cleared(last.pre)
    /\ Len(drv.closed) >= 1

-----------------------------------------------------------------------------
(* Claims about run_health_check, checked under SpecHealth. *)

HealthReported ==
    op = "run_health_check" /\ pc = "done" /\ outcome.kind = "return"

\* The three conditions on the tables the getters returned, with the
\* interface status compared by sameStatus
HealthConditions(sameStatus(_)) ==
    /\ \A peer \in DOMAIN returned["bgp_neighbors"] :
          LET row == returned["bgp_neighbors"][peer]
          IN  /\ "state" \in DOMAIN row
              /\ Lower(Chars(row["state"])) = Lower(Chars("established"))
    /\ \A name \in DOMAIN returned["interfaces"] :
          LET row == returned["interfaces"][name]
          IN  (\A p \in {"lo", "Loopback", "Management", "mgmt"} :
                  ~StartsWith(Chars(name), Chars(p)))
              => ("oper_status" \in DOMAIN row /\ sameStatus(row["oper_status"]))
    /\ Cardinality(DOMAIN returned["lldp_neighbors"]) >= 1

\* The report's own consistency: the overall flag is the AND of the three
\* reported flags and each sub-report carries the table its getter returned
ReportConsistent ==
    LET report == outcome.value
    IN  /\ report["overall_healthy"] =
              (report["bgp"].healthy /\ report["interfaces"].healthy
                 /\ report["lldp"].healthy)
        /\ report["bgp"].details = returned["bgp_neighbors"]
        /\ report["interfaces"].details = returned["interfaces"]
        /\ report["lldp"].details = returned["lldp_neighbors"]

\* C8 as stated: overall_healthy is true exactly when every BGP peer's state
\* is 'established' ignoring case, every interface outside lo / Loopback /
\* Management / mgmt has oper_status 'up', and the LLDP table is not empty.
C8_AsStated ==
    HealthReported =>
        /\ outcome.value["overall_healthy"] = HealthConditions(LAMBDA st : st = "up")
        /\ ReportConsistent

\* C8: the same with oper_status compared with 'up' ignoring case, as the
\* BGP state is.
C8_HealthCheck ==
    HealthReported =>
        /\ outcome.value["overall_healthy"] =
              HealthConditions(LAMBDA st : Lower(Chars(st)) = Lower(Chars("up")))
        /\ ReportConsistent

\* A healthy report for a device whose interface reports "UP"
C8_Witness ==
    /\ HealthReported
    /\ outcome.value["overall_healthy"]
    /\ \E name \in DOMAIN returned["interfaces"] :
          /\ "oper_status" \in DOMAIN returned["interfaces"][name]
          /\ returned["interfaces"][name]["oper_status"] = "UP"

-----------------------------------------------------------------------------
(* Claims about snapshot comparison, checked under SpecDiff. *)

\* The entries of a diff for one key of one category
EntriesFor(d, category, key) ==
    SelectSeq(d.diffs, LAMBDA e : e.category = category /\ e.key = key)

\* The keys any category map of the model can hold
AllKeys == {"10.0.0.1", "10.0.0.2", "Lo0", "et-0", "lo0", "10.0.0.0/8"}

\* C9: SnapshotEngine.diff is total and exact per category.  For every
\* category and key: a key only in post has exactly one entry, 'added'; a
\* key only in pre exactly one, 'removed'; a key in both with unequal values
\* exactly one, 'changed'; a key in both with equal values none; a key in
\* neither none.
C9_DiffExact ==
    engine_diff # None =>
        \A i \in 1..Len(Categories) : \A key \in AllKeys :
            LET c == Categories[i]
                es == EntriesFor(engine_diff, c, key)
                inPre == key \in DOMAIN pre[c]
                inPost == key \in DOMAIN post[c]
            IN  /\ (~inPre /\ inPost) => (Len(es) = 1 /\ es[1].action = "added")
                /\ (inPre /\ ~inPost) => (Len(es) = 1 /\ es[1].action = "removed")
                /\ (inPre /\ inPost /\ pre[c][key] # post[c][key]) =>
                       (Len(es) = 1 /\ es[1].action = "changed")
                /\ (inPre /\ inPost /\ pre[c][key] = post[c][key]) => es = <<>>
                /\ (~inPre /\ ~inPost) => es = <<>>

\* C10: compare_snapshots on the driver base and diff on the snapshot engine
\* return the same ordered entries and the same pre_id, post_id and device
\* for the same pair of snapshots.
C10_SameDiff ==
    (engine_diff # None /\ driver_diff # None) =>
        /\ engine_diff.diffs = driver_diff.diffs
        /\ engine_diff.pre_id = driver_diff.pre_id
        /\ engine_diff.post_id = driver_diff.post_id
        /\ engine_diff.device = driver_diff.device

\* The position of a category in the fixed list
CategoryIndex(c) == CHOOSE i \in 1..Len(Categories) : Categories[i] = c

\* C11: the diff is deterministic and order-stable.  Its entries are grouped
\* by category in the order bgp_neighbors, interfaces, routing_table,
\* lldp_neighbors, evpn_routes, and inside a category their keys ascend
\* strictly in lexicographic order; and computing the diff of the same
\* snapshots again, whatever order the keys are met in, gives the same
\* sequence of entries.
C11_DiffOrderStable ==
    /\ [](engine_diff # None =>
            \A i, j \in 1..Len(engine_diff.diffs) :
                i < j =>
                    LET x == engine_diff.diffs[i]
                        y == engine_diff.diffs[j]
                    IN  \/ CategoryIndex(x.category) < CategoryIndex(y.category)
                        \/ /\ x.category = y.category
                           /\ StrLess(x.key, y.key))
    /\ [][(engine_diff # None /\ engine_diff' # None)
             => engine_diff'.diffs = engine_diff.diffs]_vars

\* A diff with entries in two categories, two of them in one category under
\* the keys "Lo0" and "et-0"
C11_Witness ==
    /\ engine_diff # None
    /\ Len(engine_diff.diffs) >= 3
    /\ \E i, j, k \in 1..Len(engine_diff.diffs) :
          /\ engine_diff.diffs[i].category = "bgp_neighbors"
          /\ engine_diff.diffs[j].key = "Lo0"
          /\ engine_diff.diffs[k].key = "et-0"

-----------------------------------------------------------------------------
(* Claims about snapshot storage *)

RECURSIVE JsonTyped(_)
\* The value is built from dicts, lists, strings, integers and None only
JsonTyped(v) ==
    IF "py" \notin DOMAIN v
    THEN \A k \in DOMAIN v : JsonTyped(v[k])
    ELSE CASE v.py \in {"None", "str", "int"} -> TRUE
           [] v.py = "list" -> \A i \in 1..Len(v.items) : JsonTyped(v.items[i])
           [] OTHER -> FALSE

SnapshotJsonTyped(snap) ==
    \A f \in SnapshotFields \ {"snapshot_id", "device", "timestamp"} : JsonTyped(snap[f])

\* Nothing has written to the directory since the last call ended
Fresh == engine_last # None /\ engine_last.at = writes

CaptureReturned ==
    Fresh /\ engine_last.op = "capture" /\ engine_last.kind = "return"

LoadEnded(kind) ==
    engine_last # None /\ engine_last.op = "load" /\ engine_last.kind = kind

\* C12: persistence round-trips.  When capture has just returned a snapshot S
\* whose maps hold JSON values under string keys, load(S.device,
\* S.snapshot_id) returns a snapshot equal to S in snapshot_id, device,
\* timestamp and the five maps, and so does Snapshot.from_json(S.to_json());
\* a load that reads the record a capture of S wrote returns S.
C12_RoundTrip ==
    /\ (CaptureReturned /\ SnapshotJsonTyped(engine_last.value)) =>
          LET S == engine_last.value
          IN  \A now \in Timestamps :
                /\ Load(store, S.device, S.snapshot_id, now)
                      = [kind |-> "return", value |-> S]
                /\ FromJson(ToJson(S), now) = [kind |-> "return", value |-> S]
    /\ LoadEnded("return") =>
          LET S == captured[<<engine_last.device.text, engine_last.snapshot_id>>]
              path == SnapshotPath(engine_last.device.text, engine_last.snapshot_id)
          IN  (S # None /\ SnapshotJsonTyped(S) /\ store[path] = ToJson(S))
                  => engine_last.value = S

C12_Witness ==
    /\ LoadEnded("return")
    /\ engine_last.value.bgp_neighbors = JsonRows
    /\ engine_last.value = captured[<<engine_last.device.text, engine_last.snapshot_id>>]
    /\ \E d \in Devices, i \in Ids : captured[<<d, i>>] # None
                                       /\ ~SnapshotJsonTyped(captured[<<d, i>>])

\* C13: the storage key is collision-free: two distinct (device, snapshot_id)
\* pairs never share a file, so a load(d, i) that returns gives the snapshot
\* of the most recent capture for exactly the pair (d, i).
C13_KeyCollisionFree ==
    LoadEnded("return") =>
        LET S == captured[<<engine_last.device.text, engine_last.snapshot_id>>]
        IN  /\ S # None
            /\ engine_last.value.device = engine_last.device.text
            /\ engine_last.value.snapshot_id = engine_last.snapshot_id
            /\ SnapshotJsonTyped(S) => engine_last.value = S

\* C14: load fails with SnapshotError and nothing else: whenever load raises,
\* it raises SnapshotError, and it does raise when the record is absent or
\* corrupt (not JSON, JSON that is not an object, an object with a missing
\* or unknown field, bytes that are not valid text); a load that fails
\* leaves the store unchanged.
C14_LoadFailsWithSnapshotError ==
    /\ [](LoadEnded("raise") => engine_last.value.kind = "SnapshotError")
    /\ []((Fresh /\ engine_last.op = "load") =>
            LET content == store[SnapshotPath(engine_last.device.text,
                                              engine_last.snapshot_id)]
            IN  (content = Absent \/ content \in Corruptions)
                    => /\ engine_last.kind = "raise"
                       /\ engine_last.value.kind = "SnapshotError")
    /\ [][(engine_last' # engine_last /\ LoadEnded("raise")') => store' = store]_vars

CaptureEnded(kind) ==
    engine_last # None /\ engine_last.op = "capture" /\ engine_last.kind = kind

\* C15: capture either returns the snapshot after persisting it, so that the
\* record under its key is the snapshot's JSON text, or raises SnapshotError:
\* a failure of take_snapshot and a failure of the write both reach the
\* caller as SnapshotError, and when take_snapshot fails no record is
\* created or changed.
C15_CaptureOutcome ==
    /\ [](CaptureReturned =>
            store[SnapshotPath(engine_last.value.device,
                               engine_last.value.snapshot_id)]
                = ToJson(engine_last.value))
    /\ [](CaptureEnded("raise") => engine_last.value.kind = "SnapshotError")
    /\ [][(engine_last' # engine_last /\ CaptureEnded("raise")'
              /\ engine_last'.taken = "raise") => store' = store]_vars

C15_Witness ==
    /\ CaptureEnded("raise")
    /\ engine_last.taken = "return"
    /\ \E p \in Paths : store[p] \notin {Absent} \cup Corruptions

\* The files of the records captured for device d, one per snapshot_id
PersistedFor(d) == {SnapshotPath(d, i) : i \in {i \in Ids : captured[<<d, i>>] # None}}

\* C16: list_snapshots(device=d) returns exactly the records persisted for
\* d, one per distinct snapshot_id and none of another device, in sorted
\* order; list_snapshots() returns every persisted record, sorted.
C16_ListExact ==
    (Fresh /\ engine_last.op = "list_snapshots") =>
        LET result == engine_last.value.items
            device == engine_last.device
            expected == IF device = None \/ device.text = ""
                        THEN UNION {PersistedFor(d) : d \in Devices}
                        ELSE PersistedFor(device.text)
        IN  /\ {result[k] : k \in 1..Len(result)} = expected
            /\ Len(result) = Cardinality(expected)
            /\ \A k, l \in 1..Len(result) : k < l => StrLess(result[k], result[l])

\* The complete texts of the snapshots the captures so far were given
WrittenTexts == {ToJson(writers[w].snapshot) : w \in DOMAIN writers}

\* C17: a persisted record is never partially overwritten.  While captures
\* write one key and loads of that key run at the same time, every load
\* observes the complete text of exactly one captured snapshot (or no record,
\* before the first capture), and once no capture is in progress the store
\* holds the complete text of exactly one captured snapshot: never a
\* truncated, empty or mixed record.
C17_NeverPartial ==
    /\ (engine_last # None /\ engine_last.op = "load"
          /\ engine_last.device.text = RaceDevice /\ engine_last.snapshot_id = RaceId) =>
          IF engine_last.kind = "return"
          THEN ToJson(engine_last.value) \in WrittenTexts
          ELSE engine_last.value.message[1] = "Snapshot file not found"
    /\ (\A w \in DOMAIN writers : writers[w].pc = "done") =>
          store[SnapshotPath(RaceDevice, RaceId)] \in WrittenTexts \cup {Absent}

-----------------------------------------------------------------------------
(* Claims about the StateValidator *)

ValidatorCalled(method) == validator_last # None /\ validator_last.method = method

\* C18: no assert_* method and not run_full_validation ever raises: for every
\* category map, with records that lack the expected field, records that
\* are null and counters that are not numbers, and every target key, the
\* call returns.
C18_NeverRaises == validator_last # None => validator_last.kind = "return"

\* What the claims call the state of a BGP record, lower-cased: the text of
\* its state field, "unknown" without the field, "none" for a null state
StateLowered(row) ==
    IF "state" \notin DOMAIN row THEN "unknown"
    ELSE IF row.state = None THEN "none"
    ELSE Str(Lower(Chars(row.state.text)))

NotFoundResult(r, peer) ==
    /\ r.passed = FALSE
    /\ r.severity = "critical"
    /\ r.actual = PyStr("not_found")
    /\ r.message = <<"BGP peer", peer, "not found in neighbor table">>

StateResult(r, row) ==
    IF StateLowered(row) # "established"
    THEN r.passed = FALSE /\ r.severity = "critical" /\ r.actual = PyStr(StateLowered(row))
    ELSE r.passed = TRUE /\ r.severity = "info"

OnePerPeer ==
    ValidatorCalled("assert_all_bgp_established") =>
        LET data == validator_data.bgp_neighbors
            items == validator_last.value.items
        IN  /\ validator_last.kind = "return"
            /\ Len(items) = Cardinality(DOMAIN data)
            /\ \A peer \in DOMAIN data :
                 \E i \in 1..Len(items) :
                    items[i] = AssertBgpNeighborEstablished(data, peer).value

\* C19 as stated: a peer that is not a key of data gives passed=false,
\* critical, actual 'not_found' and a 'not found' message; a peer that is
\* present is judged by its state: not 'established' after lower-casing gives
\* passed=false, critical, actual = the lower-cased state, otherwise
\* passed=true with severity info; and assert_all_bgp_established returns one
\* such result per peer.
C19_AsStated ==
    /\ ValidatorCalled("assert_bgp_neighbor_established") =>
          LET data == validator_data.bgp_neighbors
              peer == validator_last.key
              r == validator_last.value
          IN  /\ validator_last.kind = "return"
              /\ IF peer \notin DOMAIN data THEN NotFoundResult(r, peer)
                 ELSE IF data[peer] = None
                 THEN r.passed = TRUE \/ r.actual # PyStr("not_found")
                 ELSE StateResult(r, data[peer])
    /\ OnePerPeer

\* C19: assert_bgp_neighbor_established(data, peer) gives passed=false,
\* critical, actual 'not_found' and a 'not found' message when peer is not a
\* key of data or its record is null; otherwise the state is the record's
\* state as text, lower-cased ('unknown' without a state field): not
\* 'established' gives passed=false, critical, actual = the lower-cased
\* state, and 'established' gives passed=true with severity info.
\* assert_all_bgp_established returns one such result per peer.
C19_BgpEstablished ==
    /\ ValidatorCalled("assert_bgp_neighbor_established") =>
          LET data == validator_data.bgp_neighbors
              peer == validator_last.key
              r == validator_last.value
          IN  /\ validator_last.kind = "return"
              /\ IF peer \notin DOMAIN data \/ data[peer] = None
                 THEN NotFoundResult(r, peer)
                 ELSE StateResult(r, data[peer])
    /\ OnePerPeer

C19_Witness ==
    /\ ValidatorCalled("assert_bgp_neighbor_established")
    /\ validator_last.key = "10.0.0.1"
    /\ DOMAIN validator_data.bgp_neighbors = {"10.0.0.1", "10.0.0.2"}
    /\ validator_data.bgp_neighbors["10.0.0.1"] = None
    /\ validator_last.value.actual = PyStr("not_found")

\* The value of a counter of an interface record that holds numbers
Counter(row, f) ==
    IF f \notin DOMAIN row THEN 0
    ELSE IF row[f].py = "int" THEN row[f].n
    ELSE Numerals[row[f].text]

\* The counters of the record are integers or decimal strings, or absent
Countable(row) ==
    \A f \in DOMAIN row \cap {"input_errors", "output_errors"} :
        row[f].py = "int" \/ (row[f].py = "str" /\ row[f].text \in DOMAIN Numerals)

ErrorsJudged(r, row, threshold) ==
    LET sum == Counter(row, "input_errors") + Counter(row, "output_errors")
    IN  /\ r.passed = (sum <= threshold)
        /\ r.severity = IF sum > threshold THEN "medium" ELSE "info"
        /\ r.details = [input_errors  |-> PyInt(Counter(row, "input_errors")),
                        output_errors |-> PyInt(Counter(row, "output_errors"))]

-----------------------------------------------------------------------------
(* Claims about the TopologyVerifier *)

\* The last call on the verifier was this method
TopologyCalled(method) == topo_last.op = method

\* The last call was this method and it returned
TopologyReturned(method) == TopologyCalled(method) /\ topo_last.kind = "return"

\* The graph holds a link from the one device to the other
HasLink(from, to) ==
    \E i \in 1..Len(topo.links) :
       topo.links[i].local_device = from /\ topo.links[i].remote_device = to

\* In how many directions the graph holds a link between two devices
Directions(a, b) ==
    (IF HasLink(a, b) THEN 1 ELSE 0) + (IF HasLink(b, a) THEN 1 ELSE 0)

\* The positions of the expected pairs that lack a direction, in order
Flagged(expected) ==
    LET Lacking(i) == Directions(expected[i][1], expected[i][2]) < 2
    IN  SelectSeq([i \in 1..Len(expected) |-> i], Lacking)

\* C21: the list verify_expected_links returns holds, in the order of the
\* expected pairs, one issue for every pair that lacks a direction and
\* nothing else: missing_link / critical when the graph has the link in
\* neither direction, unidirectional / high when it has it in exactly one.
C21_ExpectedPairsClassified ==
    TopologyReturned("verify_expected_links") =>
       LET expected == topo_last.arg
           issues == topo_last.value.items
           flagged == Flagged(expected)
       IN  /\ Len(issues) = Len(flagged)
           /\ \A k \in 1..Len(flagged) :
                 LET pair == expected[flagged[k]]
                     n == Directions(pair[1], pair[2])
                 IN  /\ issues[k].affected_devices = pair
                     /\ issues[k].issue_type =
                           (IF n = 0 THEN "missing_link" ELSE "unidirectional")
                     /\ issues[k].severity = (IF n = 0 THEN "critical" ELSE "high")

\* Two different pairs were expected; the first is linked both ways and
\* raised nothing, the second is linked one way and is the only issue
C21_Witness ==
    /\ TopologyReturned("verify_expected_links")
    /\ Len(topo_last.arg) = 2
    /\ topo_last.arg[1] # topo_last.arg[2]
    /\ Directions(topo_last.arg[1][1], topo_last.arg[1][2]) = 2
    /\ Len(topo_last.value.items) = 1
    /\ topo_last.value.items[1].issue_type = "unidirectional"
    /\ topo_last.value.items[1].affected_devices = topo_last.arg[2]

\* Two devices are the ends of some link, in either direction
Linked(a, b) == HasLink(a, b) \/ HasLink(b, a)

RECURSIVE Closure(_)
\* A set of devices with every device linked to one of them
Closure(devices) ==
    LET more == devices \cup {d \in topo.devices : \E e \in devices : Linked(d, e)}
    IN  IF more = devices THEN devices ELSE Closure(more)

\* The devices that can be reached from a device over links read as
\* undirected edges
ReachableFrom(device) == Closure({device})

\* Some device cannot be reached from some other
Disconnected ==
    \E a \in topo.devices, b \in topo.devices : b \notin ReachableFrom(a)

\* C22: a verifier that is not strict never raises.  A strict one raises
\* TopologyError from verify_expected_links exactly when some expected pair
\* lacks a direction, and the error then carries the description of the
\* issue of every such pair of the list, in order; it raises TopologyError
\* from assert_fully_connected exactly when the graph is disconnected.
C22_RaisesOnlyWhenStrict ==
    /\ ~topo.strict /\ ~TopologyCalled("none") => topo_last.kind = "return"
    /\ topo.strict /\ TopologyCalled("verify_expected_links") =>
          LET flagged == Flagged(topo_last.arg)
          IN  /\ topo_last.kind = "raise" <=> flagged # <<>>
              /\ topo_last.kind = "raise" =>
                    /\ topo_last.value.kind = "TopologyError"
                    /\ topo_last.value.found = Len(flagged)
                    /\ Len(topo_last.value.details.issues) = Len(flagged)
                    /\ \A k \in 1..Len(flagged) :
                          LET text == topo_last.value.details.issues[k]
                          IN  <<text[2], text[4]>> = topo_last.arg[flagged[k]]
    /\ topo.strict /\ TopologyCalled("assert_fully_connected") =>
          /\ topo_last.kind = "raise" <=> Disconnected
          /\ topo_last.kind = "raise" => topo_last.value.kind = "TopologyError"

\* A strict verifier was given two expected pairs, the first of them linked
\* one way and the second not at all, and raised with both descriptions
C22_Witness ==
    /\ topo.strict
    /\ TopologyCalled("verify_expected_links")
    /\ topo_last.kind = "raise"
    /\ Len(topo_last.arg) = 2
    /\ Directions(topo_last.arg[1][1], topo_last.arg[1][2]) = 1
    /\ Directions(topo_last.arg[2][1], topo_last.arg[2][2]) = 0
    /\ Len(topo_last.value.details.issues) = 2

\* The issues of a returned list that are about the two devices
IssuesAbout(a, b) ==
    {k \in 1..Len(topo_last.value.items) :
        {topo_last.value.items[k].affected_devices[i] : i \in 1..2} = {a, b}}

\* What detect_unidirectional_links returned is right for the graph
DetectExact ==
    TopologyReturned("detect_unidirectional_links") =>
       /\ \A a \in topo.devices, b \in topo.devices :
             Cardinality(IssuesAbout(a, b)) = (IF Directions(a, b) = 1 THEN 1 ELSE 0)
       /\ \A k \in 1..Len(topo_last.value.items) :
             /\ topo_last.value.items[k].issue_type = "unidirectional"
             /\ topo_last.value.items[k].severity = "high"
             /\ Len(topo_last.value.items[k].affected_devices) = 2
             /\ \A i \in 1..2 :
                   topo_last.value.items[k].affected_devices[i] \in topo.devices

\* detect_unidirectional_links was called again on the same graph
DetectRepeated ==
    /\ TopologyCalled("detect_unidirectional_links")
    /\ topo_last'.op = "detect_unidirectional_links"
    /\ topo' = topo

\* C23: detect_unidirectional_links returns exactly one unidirectional issue
\* for every unordered pair of devices linked in one direction only and none
\* for any other pair, however many parallel links the pair has, and a
\* second call on the same graph returns the same issues.
C23_OneIssuePerOneWayPair ==
    /\ []DetectExact
    /\ [][DetectRepeated => topo_last'.value = topo_last.value]_vars

\* Two parallel links from one device to another that reports nothing back
\* gave a single issue
C23_Witness ==
    /\ TopologyReturned("detect_unidirectional_links")
    /\ Len(topo.links) = 2
    /\ topo.links[1].local_device = topo.links[2].local_device
    /\ topo.links[1].remote_device = topo.links[2].remote_device
    /\ Directions(topo.links[1].local_device, topo.links[1].remote_device) = 1
    /\ Len(topo_last.value.items) = 1

\* The graph has the devices A, B and C
ThreeDevices == topo.devices = {"A", "B", "C"}

\* C24: with the devices A, B and C, assert_fully_connected returns no issue
\* when A-B and B-C are linked, and returns a disconnected issue whose
\* affected devices name C when A-B is the only link.
C24_ThreeDeviceExample ==
    ThreeDevices /\ TopologyReturned("assert_fully_connected") =>
       /\ Linked("A", "B") /\ Linked("B", "C") => topo_last.value = None
       /\ Linked("A", "B") /\ ~Linked("B", "C") /\ ~Linked("A", "C") =>
             /\ topo_last.value.py = "TopologyIssue"
             /\ topo_last.value.issue_type = "disconnected"
             /\ \E i \in 1..Len(topo_last.value.affected_devices) :
                   topo_last.value.affected_devices[i] = "C"

\* build_from_lldp was never called, or was last called with no data
EmptyGraph ==
    /\ topo_last.lldp = <<>>
    /\ topo.devices = {}
    /\ topo.links = <<>>

\* C25 as stated: on an empty graph verify_expected_links and
\* detect_unidirectional_links return an empty list and do not raise,
\* whatever the expected pairs are.
C25_AsStated ==
    /\ EmptyGraph
    /\ TopologyCalled("verify_expected_links")
          \/ TopologyCalled("detect_unidirectional_links")
    => /\ topo_last.kind = "return"
       /\ topo_last.value.items = <<>>

\* C25: on an empty graph detect_unidirectional_links returns an empty list
\* and does not raise; verify_expected_links finds one missing_link /
\* critical issue for every expected pair, in order; it returns them (an
\* empty list for an empty list of pairs) unless the verifier is strict and
\* the list of pairs is not empty, and then it raises TopologyError.
C25_EmptyGraph ==
    /\ EmptyGraph /\ TopologyCalled("detect_unidirectional_links") =>
          /\ topo_last.kind = "return"
          /\ topo_last.value.items = <<>>
    /\ EmptyGraph /\ TopologyCalled("verify_expected_links") =>
          LET expected == topo_last.arg
          IN  /\ topo_last.kind = "raise" <=> topo.strict /\ expected # <<>>
              /\ topo_last.kind = "raise" =>
                    /\ topo_last.value.kind = "TopologyError"
                    /\ topo_last.value.found = Len(expected)
              /\ topo_last.kind = "return" =>
                    /\ Len(topo_last.value.items) = Len(expected)
                    /\ \A k \in 1..Len(expected) :
                          /\ topo_last.value.items[k].issue_type = "missing_link"
                          /\ topo_last.value.items[k].severity = "critical"
                          /\ topo_last.value.items[k].affected_devices = expected[k]

\* A verifier that was never built was asked about two pairs and returned
\* two issues
C25_Witness ==
    /\ EmptyGraph
    /\ ~topo_last.built
    /\ TopologyReturned("verify_expected_links")
    /\ Len(topo_last.arg) = 2
    /\ Len(topo_last.value.items) = 2

\* The elements of a set of names in ascending order
Ascending(names) ==
    CHOOSE list \in [1..Cardinality(names) -> names] :
       \A i \in 1..Cardinality(names), j \in 1..Cardinality(names) :
          i < j => StrLess(list[i], list[j])

\* What assert_fully_connected gave is right for the graph and the device
\* the search started from
ConnectivityExact ==
    TopologyCalled("assert_fully_connected") =>
       LET unreachable == topo.devices \ ReachableFrom(topo_last.arg)
           text == <<"Topology graph is disconnected. Unreachable devices: ">>
                     \o Join(Ascending(unreachable), ", ")
       IN  /\ topo.devices = {} => TopologyReturned("assert_fully_connected")
                                     /\ topo_last.value = None
           /\ topo.devices # {} => topo_last.arg \in topo.devices
           /\ TopologyReturned("assert_fully_connected") /\ topo_last.value = None
                 <=> ~Disconnected
           /\ Disconnected /\ ~topo.strict =>
                 /\ topo_last.kind = "return"
                 /\ topo_last.value.py = "TopologyIssue"
                 /\ topo_last.value.issue_type = "disconnected"
                 /\ topo_last.value.severity = "critical"
                 /\ topo_last.value.affected_devices = Ascending(unreachable)
                 /\ topo_last.value.description = text
           /\ Disconnected /\ topo.strict =>
                 /\ topo_last.kind = "raise"
                 /\ topo_last.value.text = text

\* C26: assert_fully_connected gives no issue exactly when every device can
\* be reached from every other over the links read as undirected edges
\* (always so with no devices); otherwise it gives one disconnected issue of
\* severity critical whose affected devices are the devices that cannot be
\* reached from the device the search started from, ascending (a strict
\* verifier raises its description).  The search ends on every graph.
C26_ConnectivityExact ==
    /\ []ConnectivityExact
    /\ (bfs.pc = "loop") ~> (bfs.pc = "idle")

\* The search started on a device that has a link to itself or a link that
\* is answered from the other side, and ended with an issue
C26_Witness ==
    /\ TopologyReturned("assert_fully_connected")
    /\ topo_last.value.py = "TopologyIssue"
    /\ topo_last.value.affected_devices # <<>>
    /\ \E d \in topo.devices : HasLink(topo_last.arg, d) /\ HasLink(d, topo_last.arg)

\* C27: whatever was called on the verifier before, its adjacency map, link
\* list and device set are those of a new verifier on which build_from_lldp
\* was called once with the data of the last call.
C27_RebuiltWholesale ==
    LET fresh == BuildFromLldp(NewVerifier(topo.strict), topo_last.lldp)
    IN  /\ topo.adjacency = fresh.adjacency
        /\ topo.links = fresh.links
        /\ topo.devices = fresh.devices

\* build_from_lldp was called on a verifier that held links, with data that
\* has none of the devices it held
C27_Witness ==
    /\ TopologyCalled("build_from_lldp")
    /\ topo_last.rebuilt
    /\ topo.devices = {"C"}

\* The entries of the LLDP data the graph was last built from, each with
\* its device key
InputEntries ==
    {[device |-> topo_last.lldp[r].device,
      local_if |-> topo_last.lldp[r].neighbors[e].local_if,
      info |-> topo_last.lldp[r].neighbors[e].info] :
        <<r, e>> \in {p \in (1..Len(topo_last.lldp)) \X (1..2) :
                         p[2] <= Len(topo_last.lldp[p[1]].neighbors)}}

\* An entry names its neighbor: it has a remote_system that is not empty
Named(entry) ==
    "remote_system" \in DOMAIN entry.info /\ entry.info.remote_system # ""

\* The entries of the adjacency map as (device, interface) pairs
AdjacencyEntries ==
    UNION {{<<d, i>> : i \in DOMAIN topo.adjacency[d]} : d \in DOMAIN topo.adjacency}

\* C30: after build_from_lldp the device set is the device keys of the data
\* together with the non-empty remote_system values; every link and every
\* adjacency entry has both ends in the device set; there are as many links
\* as adjacency entries; and an entry whose remote_system is empty or
\* missing gives no link and no adjacency entry while its device stays in
\* the device set.
C30_GraphWellFormed ==
    /\ topo.devices =
          {topo_last.lldp[r].device : r \in 1..Len(topo_last.lldp)}
            \cup {e.info.remote_system : e \in {x \in InputEntries : Named(x)}}
    /\ \A i \in 1..Len(topo.links) :
          /\ topo.links[i].local_device \in topo.devices
          /\ topo.links[i].remote_device \in topo.devices
    /\ \A p \in AdjacencyEntries :
          /\ p[1] \in topo.devices
          /\ topo.adjacency[p[1]][p[2]] \in topo.devices
    /\ Len(topo.links) = Cardinality(AdjacencyEntries)
    /\ \A e \in InputEntries :
          ~Named(e) =>
             /\ e.device \in topo.devices
             /\ <<e.device, e.local_if>> \notin AdjacencyEntries
             /\ ~\E i \in 1..Len(topo.links) :
                   /\ topo.links[i].local_device = e.device
                   /\ topo.links[i].local_interface = e.local_if

\* The data held an entry with an empty remote_system, one without a
\* remote_system, and a named neighbor on another device
C30_Witness ==
    /\ TopologyCalled("build_from_lldp")
    /\ \E e \in InputEntries : "remote_system" \notin DOMAIN e.info
    /\ \E e \in InputEntries :
          "remote_system" \in DOMAIN e.info /\ e.info.remote_system = ""
    /\ Len(topo.links) = 1

-----------------------------------------------------------------------------
(* Claims about the order of the getters in take_snapshot and about
   capture_multiple *)

\* The order in which take_snapshot collects the tables
CollectionOrder ==
    <<"get_bgp_neighbors", "get_interfaces", "get_routing_table",
      "get_lldp_neighbors", "get_evpn_routes">>

\* The place of the getter being retried in that order
Place == CHOOSE i \in 1..Len(CollectionOrder) : CollectionOrder[i] = func

\* The categories of the getters before a place
CategoriesBefore(i) == {GetterCategory(CollectionOrder[j]) : j \in 1..(i - 1)}

\* take_snapshot is at its getters
Collecting == op = "take_snapshot" /\ pc \in {"loop", "ret", "done"}

\* Where take_snapshot stands: the getters before the current one have
\* returned, no later one has, and the calls stay within the attempts
CollectedInOrder ==
    Collecting =>
       /\ func \in {CollectionOrder[i] : i \in 1..Len(CollectionOrder)}
       /\ max_attempts = MAX_RETRY_ATTEMPTS
       /\ DOMAIN returned =
             CategoriesBefore(Place)
               \cup (IF ret.kind = "return" THEN {GetterCategory(func)} ELSE {})
       /\ Len(CallsOf(log)) <= max_attempts
       /\ total_calls <= (Place - 1) * max_attempts + Len(CallsOf(log))
       /\ total_calls <= 5 * max_attempts
       /\ pc = "done" /\ outcome.kind = "raise" =>
             /\ Len(CallsOf(log)) = max_attempts
             /\ \A i \in 1..Len(CallsOf(log)) : CallsOf(log)[i].out.kind = "raise"
             /\ DOMAIN returned = CategoriesBefore(Place)

\* A step of take_snapshot that invokes a getter or moves to another one
CollectionStep ==
    op = "take_snapshot" /\ op' = "take_snapshot" =>
       /\ total_calls' # total_calls =>
             /\ pc = "loop"
             /\ total_calls' = total_calls + 1
             /\ func' = func
             /\ Len(CallsOf(log')) = Len(CallsOf(log)) + 1
             /\ DOMAIN returned = CategoriesBefore(Place)
       /\ func' # func =>
             /\ ret.kind = "return"
             /\ Place < Len(CollectionOrder)
             /\ func' = CollectionOrder[Place + 1]
             /\ log' = <<>>
       /\ pc = "done" => total_calls' = total_calls /\ func' = func

\* C28: take_snapshot invokes the getters in the order BGP, interfaces,
\* routing table, LLDP, EVPN, each only after the one before it returned;
\* after a getter has failed on all its attempts no getter is invoked any
\* more; no getter is invoked more than max_attempts times and there are at
\* most 5 * max_attempts invocations in all.
C28_GettersInOrder ==
    /\ []CollectedInOrder
    /\ [][CollectionStep]_vars

\* Four getters returned, two of them on a later attempt, and the fifth
\* failed on all its attempts
C28_Witness ==
    /\ op = "take_snapshot" /\ pc = "done"
    /\ outcome.kind = "raise"
    /\ func = "get_evpn_routes"
    /\ total_calls >= 4 + 2 + MAX_RETRY_ATTEMPTS

\* capture_multiple was the last call on the engine
MultiCalled == engine_last # None /\ engine_last.op = "capture_multiple"

\* The store holds the record of the snapshot that results has for a host
StoredFor(host) ==
    store[SnapshotPath(host, engine_last.snapshot_id)]
       = ToJson(engine_last.results[host])

\* C29: capture_multiple takes the drivers in list order.  When the capture
\* of the k-th driver fails it raises SnapshotError, the snapshots of the
\* drivers before k are still in the store and no driver after k has been
\* contacted; when no capture fails it returns a map with one entry per
\* distinct hostname, and the store holds the record of every entry.
C29_CaptureMultiple ==
    MultiCalled =>
       LET drivers == engine_last.drivers
           contacted == engine_last.contacted
       IN  /\ Len(contacted) <= Len(drivers)
           /\ \A i \in 1..Len(contacted) : contacted[i] = drivers[i]
           /\ engine_last.kind = "raise" =>
                 /\ engine_last.value.kind = "SnapshotError"
                 /\ contacted # <<>>
                 /\ \A j \in 1..(Len(contacted) - 1) : StoredFor(drivers[j])
           /\ engine_last.kind = "return" =>
                 /\ Len(contacted) = Len(drivers)
                 /\ DOMAIN engine_last.value = {drivers[i] : i \in 1..Len(drivers)}
                 /\ \A host \in DOMAIN engine_last.value :
                       /\ engine_last.value[host].device = host
                       /\ StoredFor(host)

=============================================================================
